---------------------------- MODULE Spec2Model ----------------------------
(***************************************************************************)
(* A model of reshade-linux.py: the Link Manager (safe_symlink /           *)
(* safe_unlink), the Target Configuration Store (GamesConfigManager) and   *)
(* the Installation Manager (install_to_game / uninstall_from_game /       *)
(* run_uninstall_flow), acting on one install directory, and the           *)
(* Executable Classifier (analyze_executable) and the Merge Engine         *)
(* (merge_shaders).                                                        *)
(*                                                                         *)
(* The install directory is a function from entry names to entries.  An    *)
(* entry is absent, a regular file (with a content identity), a directory  *)
(* (with the identity of the one child the model tracks, "" when it has    *)
(* none) or a symlink (with its destination).                              *)
(***************************************************************************)
EXTENDS Integers, Sequences, FiniteSets, TLC

VARIABLES
    fs,     \* the install directory: name -> entry
    env,    \* Config plus the facts about the shared paths under main_path
    cache,  \* GamesConfigManager._cache: resolved path -> stored dict
    disk,   \* games.json: [exists, doc]
    game,   \* the GameInfo the session works on (before any override choice)
    last,   \* the most recent call: its arguments, its result, the state before it
    prev,   \* the call before that
    n,      \* number of calls made so far
    exe,    \* the executable given to analyze_executable
    ret,    \* what analyze_executable returned for it
    trees,  \* the shader source directories: directory -> names of its files
    merged  \* Merged/Shaders and Merged/Textures: name -> entry

vars == <<fs, env, cache, disk, game, last, prev, n, exe, ret, trees, merged>>

-----------------------------------------------------------------------------
(* Bounds *)

\* longest sequence of calls explored from an initial state
MaxOps == 2

\* most library names in an import table
MaxImports == 3

\* most files in the shader source directories
MaxFiles == 3

-----------------------------------------------------------------------------
(* Program constants *)

DLL_OPTIONS ==
    << "dxgi", "d3d9", "d3d11", "d3d10", "opengl32", "d3d8", "ddraw", "dinput8" >>

\* the uninstall list with the two JSON sidecar names forgotten
RESHADE_LINKS_NoSidecars ==
    << "d3d8.dll", "d3d9.dll", "d3d10.dll", "d3d11.dll", "dxgi.dll",
       "ddraw.dll", "dinput8.dll", "opengl32.dll", "d3dcompiler_47.dll",
       "ReShade.ini", "ReShade_shaders" >>

RESHADE_LINKS ==
    << "d3d8.dll", "d3d9.dll", "d3d10.dll", "d3d11.dll", "dxgi.dll",
       "ddraw.dll", "dinput8.dll", "opengl32.dll", "d3dcompiler_47.dll",
       "ReShade.ini", "ReShade_shaders", "ReShade32.json", "ReShade64.json" >>

None == "None"

Range(s) == { s[i] : i \in DOMAIN s }

\* f"{game.dll_override}.dll"
DllName(m) ==
    CASE m = "dxgi"     -> "dxgi.dll"
      [] m = "d3d9"     -> "d3d9.dll"
      [] m = "d3d11"    -> "d3d11.dll"
      [] m = "d3d10"    -> "d3d10.dll"
      [] m = "opengl32" -> "opengl32.dll"
      [] m = "d3d8"     -> "d3d8.dll"
      [] m = "ddraw"    -> "ddraw.dll"
      [] m = "dinput8"  -> "dinput8.dll"

\* target.with_suffix(target.suffix + ".backup"): the name with ".backup" appended
BackupPath(t) ==
    CASE t = "dxgi.dll"           -> "dxgi.dll.backup"
      [] t = "d3d9.dll"           -> "d3d9.dll.backup"
      [] t = "d3d11.dll"          -> "d3d11.dll.backup"
      [] t = "d3d10.dll"          -> "d3d10.dll.backup"
      [] t = "opengl32.dll"       -> "opengl32.dll.backup"
      [] t = "d3d8.dll"           -> "d3d8.dll.backup"
      [] t = "ddraw.dll"          -> "ddraw.dll.backup"
      [] t = "dinput8.dll"        -> "dinput8.dll.backup"
      [] t = "d3dcompiler_47.dll" -> "d3dcompiler_47.dll.backup"
      [] t = "ReShade_shaders"    -> "ReShade_shaders.backup"
      [] t = "ReShade.ini"        -> "ReShade.ini.backup"
      [] t = "Custom.ini"         -> "Custom.ini.backup"

\* the names safe_symlink is called on in the model
LinkNames ==
    { DllName(DLL_OPTIONS[i]) : i \in DOMAIN DLL_OPTIONS }
        \cup { "d3dcompiler_47.dll", "ReShade_shaders", "ReShade.ini", "Custom.ini" }

\* every entry name of the install directory the model tracks
Names ==
    LinkNames \cup { BackupPath(t) : t \in LinkNames }
        \cup { "ReShade32.json", "ReShade64.json", "game.exe", "save.backup" }

-----------------------------------------------------------------------------
(* Directory entries *)

Absent    == [k |-> "absent", c |-> "", t |-> ""]
File(c)   == [k |-> "file",   c |-> c,  t |-> ""]
Dir(c)    == [k |-> "dir",    c |-> c,  t |-> ""]
Link(t)   == [k |-> "link",   c |-> "", t |-> t]

EmptyDir == [x \in Names |-> Absent]

\* Config.main_path / ... and the paths derived from it; the shared paths
ShadersPath == "M/ReShade_shaders"

IniSrc(ini) ==
    CASE ini = "ReShade.ini" -> "M/ReShade.ini"
      [] ini = "Custom.ini"  -> "M/Custom.ini"
      [] OTHER               -> "M"

D3dSrc(arch) == IF arch = 32 THEN "M/d3dcompiler_47.dll.32" ELSE "M/d3dcompiler_47.dll.64"

\* self.config.reshade_path / version / f"ReShade{arch}.dll"
ReshadeDll(version, arch) ==
    CASE version = "latest" /\ arch = 32 -> "M/reshade/latest/ReShade32.dll"
      [] version = "latest" /\ arch = 64 -> "M/reshade/latest/ReShade64.dll"
      [] version = "6.1" /\ arch = 32    -> "M/reshade/6.1/ReShade32.dll"
      [] version = "6.1" /\ arch = 64    -> "M/reshade/6.1/ReShade64.dll"

\* Path.resolve(): reshade/latest is a symlink to the version directory
\* (download_reshade), /mnt/A is a symlink to /games/A; nothing else is a symlink
Resolve(p) ==
    CASE p = "M/reshade/latest/ReShade32.dll" -> "M/reshade/6.1/ReShade32.dll"
      [] p = "M/reshade/latest/ReShade64.dll" -> "M/reshade/6.1/ReShade64.dll"
      [] p = "/mnt/A"                         -> "/games/A"
      [] OTHER                                -> p

\* Path.exists() of a shared path, in the environment e
SharedExists(e, p) ==
    CASE Resolve(p) = "M/reshade/6.1/ReShade32.dll" -> 32 \in e.overlay
      [] Resolve(p) = "M/reshade/6.1/ReShade64.dll" -> 64 \in e.overlay
      [] p = "M/d3dcompiler_47.dll.32"              -> 32 \in e.d3d
      [] p = "M/d3dcompiler_47.dll.64"              -> 64 \in e.d3d
      [] p = "M/ReShade.ini" \/ p = "M/Custom.ini"  -> e.ini_src
      [] p = "M/ReShade_shaders" \/ p = "M"         -> TRUE
      [] OTHER                                      -> FALSE

\* os.path.isdir of a symlink destination
IsDirPath(p) == p = "M/ReShade_shaders" \/ p = "M"

\* Path.is_symlink()
IsSymlink(f, x) == f[x].k = "link"

\* Path.exists(): follows symlinks, so a dangling symlink does not exist
Exists(e, f, x) ==
    \/ f[x].k \in {"file", "dir"}
    \/ f[x].k = "link" /\ SharedExists(e, f[x].t)

\* os.path.isdir(): follows symlinks
IsDir(f, x) == f[x].k = "dir" \/ (f[x].k = "link" /\ IsDirPath(f[x].t))

-----------------------------------------------------------------------------
(* Link Manager *)

Ok(f)       == [fs |-> f, err |-> ""]
Raise(f, x) == [fs |-> f, err |-> x]

\* shutil.move(str(target), str(backup_path)) inside the install directory
\* a move that refuses to replace an existing file
ShutilMoveNoReplace(f, src, dst) ==
    IF f[dst].k # "absent" THEN [fs |-> f, err |-> "FileExistsError"]
    ELSE [fs |-> [f EXCEPT ![dst] = f[src], ![src] = [k |-> "absent", c |-> "", t |-> ""]], err |-> ""]

ShutilMove(f, src, dst) ==
    IF IsDir(f, dst)
    THEN \* real_dst = dst / basename(src)
         IF f[dst].k = "dir"
         THEN IF f[dst].c # ""
              THEN Raise(f, "shutil.Error")
              ELSE Ok([f EXCEPT ![dst] = Dir(IF f[src].k = "file" THEN f[src].c ELSE "dir"),
                                ![src] = Absent])
         ELSE Ok([f EXCEPT ![src] = Absent])
    ELSE IF f[src].k = "dir" /\ f[dst].k # "absent"
         THEN Raise(f, "FileExistsError")
         ELSE Ok([f EXCEPT ![dst] = f[src], ![src] = Absent])

\* safe_symlink that tests target.exists() before target.is_symlink(), so a
\* live symlink is backed up like a regular entry
SafeSymlinkExistsFirst(e, f, source, target, backup) ==
    LET symlink_to(g) == [g EXCEPT ![target] = Link(Resolve(source))]
    IN  IF Exists(e, f, target) /\ backup
        THEN LET m == ShutilMove(f, target, BackupPath(target))
             IN  IF m.err # "" THEN m ELSE Ok(symlink_to(m.fs))
        ELSE IF IsSymlink(f, target)
        THEN Ok(symlink_to([f EXCEPT ![target] = Absent]))
        ELSE IF Exists(e, f, target)
        THEN IF f[target].k = "dir"
             THEN Raise(f, "IsADirectoryError")
             ELSE Ok(symlink_to([f EXCEPT ![target] = Absent]))
        ELSE Ok(symlink_to(f))

\* safe_symlink(source, target, backup)
\* safe_symlink that links to the source path as given, unresolved
SafeSymlinkUnresolved(e, f, source, target, backup) ==
    LET symlink_to(g) == [g EXCEPT ![target] = Link(source)]
    IN  IF IsSymlink(f, target) THEN [fs |-> symlink_to([f EXCEPT ![target] = Absent]), err |-> ""]
        ELSE IF Exists(e, f, target) /\ backup
        THEN [fs |-> symlink_to([f EXCEPT ![BackupPath(target)] = f[target]]), err |-> ""]
        ELSE [fs |-> symlink_to(f), err |-> ""]

SafeSymlink(e, f, source, target, backup) ==
    LET symlink_to(g) == [g EXCEPT ![target] = Link(Resolve(source))]
    IN  IF IsSymlink(f, target)
        THEN Ok(symlink_to([f EXCEPT ![target] = Absent]))
        ELSE IF Exists(e, f, target) /\ backup
        THEN LET m == ShutilMove(f, target, BackupPath(target))
             IN  IF m.err # "" THEN m ELSE Ok(symlink_to(m.fs))
        ELSE IF Exists(e, f, target)
        THEN IF f[target].k = "dir"
             THEN Raise(f, "IsADirectoryError")
             ELSE Ok(symlink_to([f EXCEPT ![target] = Absent]))
        ELSE Ok(symlink_to(f))

\* safe_unlink that tests path.exists() instead of path.is_symlink()
SafeUnlinkExisting(f, path) ==
    IF f[path].k # "absent"
    THEN [fs |-> [f EXCEPT ![path] = Absent], ret |-> TRUE]
    ELSE [fs |-> f, ret |-> FALSE]

\* safe_unlink(path)
SafeUnlink(f, path) ==
    IF IsSymlink(f, path)
    THEN [fs |-> [f EXCEPT ![path] = Absent], ret |-> TRUE]
    ELSE [fs |-> f, ret |-> FALSE]

-----------------------------------------------------------------------------
(* Target Configuration Store *)

\* GameInfo.to_dict(): exe_files is not serialized
ToDict(g) ==
    [ name          |-> g.name,
      path          |-> g.path,
      architecture  |-> g.architecture,
      detected_api  |-> g.detected_api,
      dll_override  |-> g.dll_override,
      install_path  |-> IF g.install_path # None THEN g.install_path ELSE None,
      selected_exe  |-> IF g.selected_exe # None THEN g.selected_exe ELSE None ]

\* the key taken from the path as given
GameKeyUnresolved(game_path) == game_path

\* GamesConfigManager._game_key
GameKey(game_path) == Resolve(game_path)

\* GamesConfigManager._save: the whole cache is written to games.json
StoreFlush(c) == [exists |-> TRUE, doc |-> c]

\* GamesConfigManager.save(game): [cache, disk]
StoreSave(c, d, g) ==
    LET key == GameKey(g.path)
        c2  == [x \in DOMAIN c \cup {key} |-> IF x = key THEN ToDict(g) ELSE c[x]]
    IN  [cache |-> c2, disk |-> StoreFlush(c2)]

\* remove that forgets the record in memory only
StoreRemoveMemoryOnly(c, d, game_path) ==
    [cache |-> [x \in DOMAIN c \ {Resolve(game_path)} |-> c[x]], disk |-> d]

\* remove that looks the record up under the path as given, not resolved
StoreRemoveUnresolved(c, d, game_path) ==
    LET c2 == [x \in DOMAIN c \ {game_path} |-> c[x]]
    IN  IF game_path \in DOMAIN c
        THEN [cache |-> c2, disk |-> StoreFlush(c2)]
        ELSE [cache |-> c, disk |-> d]

\* GamesConfigManager.remove(game_path): [cache, disk]
StoreRemove(c, d, game_path) ==
    LET key == GameKey(game_path)
        c2  == [x \in DOMAIN c \ {key} |-> c[x]]
    IN  IF key \in DOMAIN c
        THEN [cache |-> c2, disk |-> StoreFlush(c2)]
        ELSE [cache |-> c, disk |-> d]

\* a JSON value that is not an object (a list, null, a string), at the top of
\* the document or as the value of an entry; objects are functions from keys
\* to values
NonObject(kind) == [json |-> kind]
IsObject(v) == "json" \notin DOMAIN v

\* a JSON number where a string is expected
JsonNumber == "<number>"

\* games.json cannot be read (OSError), is not JSON (JSONDecodeError), or is
\* not UTF-8 text (UnicodeDecodeError)
Failure(kind) == [error |-> kind]
IsFailure(v) == "error" \in DOMAIN v

\* the result of get: a record or None
Nothing == [found |-> FALSE]
Just(g) == [found |-> TRUE, game |-> g]

\* dict.get(field, default)
DictGet(data, field, default) == IF field \in DOMAIN data THEN data[field] ELSE default

\* Path(v) raises TypeError unless v is a string
PathRaises(v) == v = None \/ v = JsonNumber

\* from_dict that raises for nothing but a missing name or path
FromDictKeysOnly(data) ==
    IF ~IsObject(data) \/ "name" \notin DOMAIN data \/ "path" \notin DOMAIN data
    THEN [ok |-> FALSE, game |-> Nothing]
    ELSE [ok |-> TRUE,
          game |-> [ name          |-> data["name"],
                     path          |-> data["path"],
                     exe_files     |-> << >>,
                     architecture  |-> DictGet(data, "architecture", 64),
                     detected_api  |-> DictGet(data, "detected_api", "dx11"),
                     dll_override  |-> DictGet(data, "dll_override", "dxgi"),
                     install_path  |-> DictGet(data, "install_path", data["path"]),
                     selected_exe  |-> DictGet(data, "selected_exe", None) ]]

\* GameInfo.from_dict(data), then __post_init__: ok is FALSE when KeyError or
\* TypeError is raised
FromDict(data) ==
    IF \/ ~IsObject(data)
       \/ "name" \notin DOMAIN data
       \/ "path" \notin DOMAIN data
       \/ PathRaises(data["path"])
       \/ DictGet(data, "install_path", None) = JsonNumber
       \/ DictGet(data, "selected_exe", None) = JsonNumber
    THEN [ok |-> FALSE, game |-> Nothing]
    ELSE [ok |-> TRUE,
          game |-> [ name          |-> data["name"],
                     path          |-> data["path"],
                     exe_files     |-> << >>,
                     architecture  |-> DictGet(data, "architecture", 64),
                     detected_api  |-> DictGet(data, "detected_api", "dx11"),
                     dll_override  |-> DictGet(data, "dll_override", "dxgi"),
                     install_path  |-> IF DictGet(data, "install_path", None) # None
                                       THEN data["install_path"]
                                       ELSE data["path"],
                     selected_exe  |-> DictGet(data, "selected_exe", None) ]]

\* GamesConfigManager.__init__ and _load over the document d: [cache, err]
Load(d) ==
    IF ~d.exists THEN [cache |-> [x \in {} |-> None], err |-> ""]
    ELSE IF ~IsFailure(d.doc) THEN [cache |-> d.doc, err |-> ""]
    ELSE IF d.doc.error \in {"JSONDecodeError", "OSError"}
    THEN [cache |-> [x \in {} |-> None], err |-> ""]
    ELSE [cache |-> [x \in {} |-> None], err |-> d.doc.error]

\* GamesConfigManager.get(game_path): [val, err]
TryGet(c, game_path) ==
    IF c = NonObject("null") THEN [val |-> Nothing, err |-> "TypeError"]
    ELSE IF ~IsObject(c) \/ GameKey(game_path) \notin DOMAIN c
    THEN [val |-> Nothing, err |-> ""]
    ELSE IF FromDict(c[GameKey(game_path)]).ok
    THEN [val |-> Just(FromDict(c[GameKey(game_path)]).game), err |-> ""]
    ELSE [val |-> Nothing, err |-> ""]

\* GamesConfigManager.list_all(): [list, err]; the list is given as the
\* records by key, its order is the document's
TryListAll(c) ==
    IF ~IsObject(c) THEN [list |-> [x \in {} |-> None], err |-> "AttributeError"]
    ELSE [list |-> [x \in { k \in DOMAIN c : FromDict(c[k]).ok } |-> FromDict(c[x]).game],
          err |-> ""]

\* GamesConfigManager.save(game) on whatever _load left in _cache
TrySave(c, d, g) ==
    IF ~IsObject(c) THEN [cache |-> c, disk |-> d, err |-> "TypeError"]
    ELSE [cache |-> StoreSave(c, d, g).cache, disk |-> StoreSave(c, d, g).disk, err |-> ""]

\* GamesConfigManager.remove(game_path) on whatever _load left in _cache
TryRemove(c, d, game_path) ==
    IF c = NonObject("null") THEN [cache |-> c, disk |-> d, err |-> "TypeError"]
    ELSE IF ~IsObject(c) THEN [cache |-> c, disk |-> d, err |-> ""]
    ELSE [cache |-> StoreRemove(c, d, game_path).cache,
          disk |-> StoreRemove(c, d, game_path).disk, err |-> ""]

-----------------------------------------------------------------------------
(* Installation Manager *)

\* ReShadeInstaller.get_current_version
GetCurrentVersion(e) ==
    IF e.reshade_version = "latest" /\ e.lvers # ""
    THEN e.lvers
    ELSE e.reshade_version

\* a program state, with the outcome of the call that produced it
St(f, e, c, d) ==
    [fs |-> f, env |-> e, cache |-> c, disk |-> d, err |-> "", errpath |-> "", done |-> 0]

\* ReShadeInstaller.download_d3dcompiler(arch); dl is the outcome of the
\* download, the integrity check and the extraction ("ok" or "fail")
DownloadD3dcompiler(s, arch, dl) ==
    IF SharedExists(s.env, D3dSrc(arch))
    THEN s
    ELSE IF dl = "ok"
         THEN [s EXCEPT !.env.d3d = @ \cup {arch}]
         ELSE [s EXCEPT !.err = "RuntimeError"]

\* one safe_symlink call of install_to_game, the i-th step of the install
LinkStep(s, i, source, target, backup) ==
    LET r == SafeSymlink(s.env, s.fs, source, target, backup)
    IN  [s EXCEPT !.fs = r.fs, !.err = r.err, !.done = IF r.err = "" THEN i ELSE @]

\* install_to_game, from the save on: self.games_config.save(game)
InstallSave(s4, g) ==
    LET sv == StoreSave(s4.cache, s4.disk, g)
    IN  [s4 EXCEPT !.cache = sv.cache, !.disk = sv.disk, !.done = 5]

\* the config link made without the ini_src.exists() test
InstallConfigUnchecked(s3, g, upto) ==
    LET ini == s3.env.global_ini
        s4  == IF ini # ""
               THEN LinkStep(s3, 4, IniSrc(ini), ini, FALSE)
               ELSE [s3 EXCEPT !.done = 4]
    IN  IF s4.err # "" \/ upto = 4 THEN s4 ELSE InstallSave(s4, g)

\* install_to_game, from the config link on
InstallConfig(s3, g, upto) ==
    LET ini == s3.env.global_ini
        s4  == IF ini # "" /\ SharedExists(s3.env, IniSrc(ini))
               THEN LinkStep(s3, 4, IniSrc(ini), ini, FALSE)
               ELSE [s3 EXCEPT !.done = 4]
    IN  IF s4.err # "" \/ upto = 4 THEN s4 ELSE InstallSave(s4, g)

\* the shader link made with a backup of what it replaces
InstallShadersBackingUp(s2, g, upto) ==
    LET s3 == LinkStep(s2, 3, ShadersPath, "ReShade_shaders", TRUE)
    IN  IF s3.err # "" \/ upto = 3 THEN s3 ELSE InstallConfig(s3, g, upto)

\* install_to_game, from the shader link on
InstallShaders(s2, g, upto) ==
    LET s3 == LinkStep(s2, 3, ShadersPath, "ReShade_shaders", FALSE)
    IN  IF s3.err # "" \/ upto = 3 THEN s3 ELSE InstallConfig(s3, g, upto)

\* install_to_game, from the compiler-helper download and link on
InstallCompiler(s1, g, dl, upto) ==
    LET sd == DownloadD3dcompiler(s1, g.architecture, dl)
        s2 == LinkStep(sd, 2, D3dSrc(g.architecture), "d3dcompiler_47.dll", FALSE)
    IN  IF sd.err # "" THEN sd
        ELSE IF s2.err # "" \/ upto = 2 THEN s2
        ELSE InstallShaders(s2, g, upto)

\* install_to_game without the reshade_dll.exists() test
InstallToGameUnchecked(s, g, dl, upto) ==
    LET reshade_dll == ReshadeDll(GetCurrentVersion(s.env), g.architecture)
        s1 == LinkStep(s, 1, reshade_dll, DllName(g.dll_override), TRUE)
    IN  IF s1.err # "" \/ upto = 1 THEN s1
        ELSE InstallCompiler(s1, g, dl, upto)

\* install_to_game that returns at once when the shim is already a symlink
InstallToGameOnce(s, g, dl, upto) ==
    LET reshade_dll == ReshadeDll(GetCurrentVersion(s.env), g.architecture)
        s1 == LinkStep(s, 1, reshade_dll, DllName(g.dll_override), TRUE)
    IN  IF ~SharedExists(s.env, reshade_dll)
        THEN [s EXCEPT !.err = "FileNotFoundError", !.errpath = reshade_dll]
        ELSE IF IsSymlink(s.fs, DllName(g.dll_override)) THEN [s EXCEPT !.done = 5]
        ELSE IF s1.err # "" \/ upto = 1 THEN s1
        ELSE InstallCompiler(s1, g, dl, upto)

\* install_to_game that saves the record before it links anything
InstallToGameSaveFirst(s, g, dl, upto) ==
    LET reshade_dll == ReshadeDll(GetCurrentVersion(s.env), g.architecture)
        sv == StoreSave(s.cache, s.disk, g)
        s0 == [s EXCEPT !.cache = sv.cache, !.disk = sv.disk]
        s1 == LinkStep(s0, 1, reshade_dll, DllName(g.dll_override), TRUE)
    IN  IF ~SharedExists(s.env, reshade_dll)
        THEN [s0 EXCEPT !.err = "FileNotFoundError", !.errpath = reshade_dll]
        ELSE IF s1.err # "" \/ upto = 1 THEN s1
        ELSE InstallCompiler(s1, g, dl, upto)

\* ReShadeInstaller.install_to_game(game), run from state s.  upto is the
\* number of steps after which the run is interrupted (5: it is not): the shim
\* link, the compiler-helper link, the shader link, the config link, the save.
InstallToGame(s, g, dl, upto) ==
    LET reshade_dll == ReshadeDll(GetCurrentVersion(s.env), g.architecture)
        s1 == LinkStep(s, 1, reshade_dll, DllName(g.dll_override), TRUE)
    IN  IF ~SharedExists(s.env, reshade_dll)
        THEN [s EXCEPT !.err = "FileNotFoundError", !.errpath = reshade_dll]
        ELSE IF s1.err # "" \/ upto = 1 THEN s1
        ELSE InstallCompiler(s1, g, dl, upto)

\* the loop reporting every name it checks, removed or not
RECURSIVE UninstallLoopReportsAll(_, _, _)
UninstallLoopReportsAll(f, i, removed) ==
    IF i > Len(RESHADE_LINKS)
    THEN [fs |-> f, removed |-> removed]
    ELSE LET r == SafeUnlink(f, RESHADE_LINKS[i])
         IN  UninstallLoopReportsAll(r.fs, i + 1, Append(removed, RESHADE_LINKS[i]))

\* the loop of uninstall_from_game over RESHADE_LINKS, from its i-th name on
RECURSIVE UninstallLoop(_, _, _)
UninstallLoop(f, i, removed) ==
    IF i > Len(RESHADE_LINKS)
    THEN [fs |-> f, removed |-> removed]
    ELSE LET r == SafeUnlink(f, RESHADE_LINKS[i])
         IN  UninstallLoop(r.fs, i + 1,
                           IF r.ret THEN Append(removed, RESHADE_LINKS[i]) ELSE removed)

\* an uninstall that also clears every backup entry
UninstallFromGameClearingBackups(f) ==
    [fs |-> [x \in DOMAIN f |->
               IF x \in { BackupPath(t) : t \in LinkNames } THEN Absent
               ELSE UninstallLoop(f, 1, << >>).fs[x]],
     removed |-> UninstallLoop(f, 1, << >>).removed]

\* ReShadeInstaller.uninstall_from_game(game_path)
UninstallFromGame(f) == UninstallLoop(f, 1, << >>)

-----------------------------------------------------------------------------
(* Executable Classifier *)

\* the machine-type words of the model: i386, x86-64, ARM64
IMAGE_FILE_MACHINE_I386 == 332
MachineTypes == { IMAGE_FILE_MACHINE_I386, 34404, 43620 }

\* the library names an import table of the model may hold, as spelled there
ImportNames ==
    { "d3d12.dll", "d3d11.dll", "dxgi.dll", "d3d10.dll", "d3d10_1.dll", "d3d9.dll",
      "opengl32.dll", "d3d8.dll", "kernel32.dll", "D3D9.DLL", "D3D11.dll", "OpenGL32.DLL" }

\* str.lower() of a library name
Lower(name) ==
    CASE name = "D3D9.DLL"     -> "d3d9.dll"
      [] name = "D3D11.dll"    -> "d3d11.dll"
      [] name = "OpenGL32.DLL" -> "opengl32.dll"
      [] OTHER                 -> name

\* a classification in progress: the three locals of analyze_executable
Triple(arch, api, dll) == [arch |-> arch, api |-> api, dll |-> dll]

\* the if/elif chain with the level-9 test placed first
DetectApiD3d9First(t, imports) ==
    IF "d3d9.dll" \in imports THEN [t EXCEPT !.api = "dx9", !.dll = "d3d9"]
    ELSE IF "d3d12.dll" \in imports THEN [t EXCEPT !.api = "dx12", !.dll = "dxgi"]
    ELSE IF "d3d11.dll" \in imports \/ "dxgi.dll" \in imports
    THEN [t EXCEPT !.api = "dx11", !.dll = "dxgi"]
    ELSE IF "d3d10.dll" \in imports \/ "d3d10_1.dll" \in imports
    THEN [t EXCEPT !.api = "dx10", !.dll = "d3d10"]
    ELSE IF "opengl32.dll" \in imports THEN [t EXCEPT !.api = "opengl", !.dll = "opengl32"]
    ELSE IF "d3d8.dll" \in imports THEN [t EXCEPT !.api = "dx8", !.dll = "d3d8"]
    ELSE t

\* the if/elif chain over the lower-cased import names
DetectApi(t, imports) ==
    IF "d3d12.dll" \in imports THEN [t EXCEPT !.api = "dx12", !.dll = "dxgi"]
    ELSE IF "d3d11.dll" \in imports \/ "dxgi.dll" \in imports
    THEN [t EXCEPT !.api = "dx11", !.dll = "dxgi"]
    ELSE IF "d3d10.dll" \in imports \/ "d3d10_1.dll" \in imports
    THEN [t EXCEPT !.api = "dx10", !.dll = "d3d10"]
    ELSE IF "d3d9.dll" \in imports THEN [t EXCEPT !.api = "dx9", !.dll = "d3d9"]
    ELSE IF "opengl32.dll" \in imports THEN [t EXCEPT !.api = "opengl", !.dll = "opengl32"]
    ELSE IF "d3d8.dll" \in imports THEN [t EXCEPT !.api = "dx8", !.dll = "d3d8"]
    ELSE t

\* the import names compared as spelled in the table
ImportsAsSpelled(x) == x.imports

\* the set comprehension of lower-cased names of pe.DIRECTORY_ENTRY_IMPORT
ImportsLowered(x) == { Lower(name) : name \in x.imports }

\* the except branch taking every readable header for a 32-bit one
FallbackAnyMachine(x, t) ==
    IF x.raw = "ok" THEN [t EXCEPT !.arch = 32, !.dll = "d3d9"] ELSE t

\* the except branch: the raw machine-type word read at e_lfanew + 4; t holds
\* the locals as the try block left them
Fallback(x, t) ==
    IF x.raw = "ok" /\ x.machine = IMAGE_FILE_MACHINE_I386
    THEN [t EXCEPT !.arch = 32, !.dll = "d3d9"]
    ELSE t

\* the try block from the import table on; x.fails names the statement that
\* raises: "imports" the reading of an import name, "close" pe.close()
ClassifyImports(x, t) ==
    IF x.fails = "imports" THEN Fallback(x, t)
    ELSE IF x.fails = "close"
    THEN Fallback(x, IF x.table THEN DetectApi(t, ImportsLowered(x)) ELSE t)
    ELSE IF x.table THEN DetectApi(t, ImportsLowered(x)) ELSE t

\* analyze_executable reporting 64-bit for the x86-64 machine type only
AnalyzeExecutableX64Only(x) ==
    IF x.fails = "open"
    THEN Fallback(x, Triple(64, "dx11", "dxgi"))
    ELSE ClassifyImports(x, Triple(IF x.machine = 34404 THEN 64 ELSE 32, "dx11", "dxgi"))

\* analyze_executable(exe_path); x.fails = "open" when pefile.PE or
\* parse_data_directories raises
AnalyzeExecutable(x) ==
    IF x.fails = "open"
    THEN Fallback(x, Triple(64, "dx11", "dxgi"))
    ELSE ClassifyImports(x, Triple(IF x.machine = IMAGE_FILE_MACHINE_I386 THEN 32 ELSE 64,
                                   "dx11", "dxgi"))

-----------------------------------------------------------------------------
(* Merge Engine *)

\* the source directories in the order merge_shaders visits them: for each
\* repository under ReShade_shaders (in the order iterdir yields them) its
\* Shaders directory, then its Textures directory; then External_shaders:
\* its Shaders directory, its Textures directory, its own loose files
SourceDirs ==
    << "repo1/Shaders", "repo1/Textures", "repo2/Shaders", "repo2/Textures",
       "External_shaders/Shaders", "External_shaders/Textures", "External_shaders" >>

SHADER_EXTENSIONS == { ".fx", ".fxh" }
TEXTURE_EXTENSIONS == { ".png", ".jpg", ".jpeg", ".dds", ".bmp", ".tga" }

\* the file names of the model and item.suffix.lower() of each
MergeNames == { "X.fx", "T.PNG" }
LooseNames == MergeNames \cup { "notes.txt" }
SuffixLower(name) ==
    CASE name = "X.fx"  -> ".fx"
      [] name = "T.PNG" -> ".png"
      [] OTHER          -> ".txt"

\* entries of a destination directory: the destination of a symlink is the
\* source directory and the name of the file it points to
MAbsent == [k |-> "absent", t |-> << >>]
MFile == [k |-> "file", t |-> << >>]
MLink(dir, name) == [k |-> "link", t |-> << dir, name >>]

\* the destination directory link_file is given for a file of a source
\* directory; "" when the file is passed over
DestOf(dir, name) ==
    CASE dir \in { "repo1/Shaders", "repo2/Shaders", "External_shaders/Shaders" } -> "Shaders"
      [] dir \in { "repo1/Textures", "repo2/Textures", "External_shaders/Textures" } -> "Textures"
      [] dir = "External_shaders" /\ SuffixLower(name) \in SHADER_EXTENSIONS -> "Shaders"
      [] dir = "External_shaders" /\ SuffixLower(name) \in TEXTURE_EXTENSIONS -> "Textures"
      [] OTHER -> ""

\* a merge that clears nothing first
ClearNothing(m) == m

\* a merge that clears every entry of the destinations, regular files too
ClearAll(m) == [d \in DOMAIN m |-> [x \in DOMAIN m[d] |-> MAbsent]]

\* "Clear existing symlinks"
ClearLinks(m) ==
    [d \in DOMAIN m |-> [x \in DOMAIN m[d] |-> IF m[d][x].k = "link" THEN MAbsent ELSE m[d][x]]]

\* the files of a source directory that link_file is called on and has not seen
Unseen(st, src, dir) == { x \in src[dir] : DestOf(dir, x) # "" /\ x \notin st.seen }

\* link_file that links a name again when a later directory has it
LinkDirOverwriting(st, src, dir) ==
    [ merged  |-> [d \in DOMAIN st.merged |->
                     [x \in DOMAIN st.merged[d] |->
                        IF x \in src[dir] /\ DestOf(dir, x) = d /\ st.merged[d][x].k # "file"
                        THEN MLink(dir, x)
                        ELSE st.merged[d][x]]],
      seen    |-> st.seen \cup { x \in src[dir] : DestOf(dir, x) # "" },
      created |-> st.created + Cardinality({ x \in src[dir] : DestOf(dir, x) # "" }) ]

\* link_file that never records the names it has seen
LinkDirForgetting(st, src, dir) ==
    [ merged  |-> [d \in DOMAIN st.merged |->
                     [x \in DOMAIN st.merged[d] |->
                        IF x \in src[dir] /\ DestOf(dir, x) = d /\ st.merged[d][x].k = "absent"
                        THEN MLink(dir, x)
                        ELSE st.merged[d][x]]],
      seen    |-> st.seen,
      created |-> st.created +
                  Cardinality({ x \in src[dir] : /\ DestOf(dir, x) # ""
                                                 /\ st.merged[DestOf(dir, x)][x].k = "absent" }) ]

\* link_file that keeps one set of seen names for each destination
LinkDirPerDestination(st, src, dir) ==
    [ merged  |-> [d \in DOMAIN st.merged |->
                     [x \in DOMAIN st.merged[d] |->
                        IF x \in src[dir] /\ DestOf(dir, x) = d /\ st.merged[d][x].k = "absent"
                        THEN MLink(dir, x)
                        ELSE st.merged[d][x]]],
      seen    |-> st.seen \cup { x \in src[dir] : DestOf(dir, x) # "" },
      created |-> st.created +
                  Cardinality({ x \in src[dir] : /\ DestOf(dir, x) # ""
                                                 /\ st.merged[DestOf(dir, x)][x].k = "absent" }) ]

\* link_file applied to every file of one source directory: an unseen name is
\* recorded, and linked when nothing exists under it in its destination
LinkDir(st, src, dir) ==
    [ merged  |-> [d \in DOMAIN st.merged |->
                     [x \in DOMAIN st.merged[d] |->
                        IF x \in Unseen(st, src, dir) /\ DestOf(dir, x) = d
                           /\ st.merged[d][x].k = "absent"
                        THEN MLink(dir, x)
                        ELSE st.merged[d][x]]],
      seen    |-> st.seen \cup Unseen(st, src, dir),
      created |-> st.created +
                  Cardinality({ x \in Unseen(st, src, dir) :
                                  st.merged[DestOf(dir, x)][x].k = "absent" }) ]

\* the loops over the source directories, from the i-th on
RECURSIVE MergeFrom(_, _, _)
MergeFrom(st, src, i) ==
    IF i > Len(SourceDirs) THEN st
    ELSE MergeFrom(LinkDir(st, src, SourceDirs[i]), src, i + 1)

\* merge_shaders(): [merged, seen, created]; len(seen) is the count it reports
MergeShaders(m, src) ==
    MergeFrom([merged |-> ClearLinks(m), seen |-> {}, created |-> 0], src, 1)

-----------------------------------------------------------------------------
(* Initial states *)

\* no executable has been classified
NoExe == [machine |-> 34404, table |-> FALSE, imports |-> {}, fails |-> "none", raw |-> "ok"]
NoResult == Triple(0, "", "")
ClassifierIdle == exe = NoExe /\ ret = NoResult

\* no source directory holds a file, the destinations are empty
NoTrees == [d \in Range(SourceDirs) |-> {}]
EmptyMerged == [d \in {"Shaders", "Textures"} |-> [x \in MergeNames |-> MAbsent]]
MergeIdle == trees = NoTrees /\ merged = EmptyMerged

\* the override modules the installs of the model choose among
Overrides == { "dxgi", "d3d9", "dinput8" }

\* the points at which an install is interrupted: after the shim link, the
\* compiler-helper link, the shader link, the config link
InterruptPoints == 1 .. 4

\* GameInfo(name, path, ...) as built by the scan or by browse_for_game for
\* the directory the model tracks, then classified
GameInfo(path, arch, dll) ==
    [ name          |-> "A",
      path          |-> path,
      exe_files     |-> << "/games/A/game.exe" >>,
      architecture  |-> arch,
      detected_api  |-> "dx11",
      dll_override  |-> dll,
      install_path  |-> "/games/A",
      selected_exe  |-> "/games/A/game.exe" ]

\* a first run: both overlay libraries extracted, no compiler helper
\* downloaded yet, the default configuration file created
DefaultEnv ==
    [ global_ini      |-> "ReShade.ini",
      ini_src         |-> TRUE,
      overlay         |-> {32, 64},
      d3d             |-> {},
      lvers           |-> "6.1",
      reshade_version |-> "latest" ]

InitEnvs ==
    { [DefaultEnv EXCEPT !.global_ini = "Custom.ini"],
      [DefaultEnv EXCEPT !.global_ini = ""],
      [DefaultEnv EXCEPT !.ini_src = FALSE],
      [DefaultEnv EXCEPT !.overlay = {32}],
      [DefaultEnv EXCEPT !.overlay = {}],
      [DefaultEnv EXCEPT !.d3d = {32, 64}],
      [DefaultEnv EXCEPT !.lvers = ""] }

InitGames ==
    { GameInfo("/games/A", 32, "dxgi"), GameInfo("/mnt/A", 64, "dxgi") }

NoRecords == [x \in {} |-> None]

\* documents a previous session left in games.json
InitDocs ==
    { [x \in {"/games/A"} |-> ToDict(GameInfo("/games/A", 64, "d3d9"))],
      [x \in {"/games/B"} |-> [ToDict(GameInfo("/games/B", 32, "d3d9")) EXCEPT
                                 !.name = "B", !.install_path = "/games/B",
                                 !.selected_exe = None]] }

\* what a game directory may hold before the first call
InitEntries == { File("orig"), Dir(""), Link("/opt/other.dll") }
InitBackups == { Absent, File("old"), Dir(""), Dir("old"), Link("/nowhere") }

\* directories with one entry under a name the installer links and anything
\* under that name's backup name, or with one entry under another name
LinkDirs(targets) ==
    { [EmptyDir EXCEPT ![x] = e, ![BackupPath(x)] = b] :
        x \in targets, e \in InitEntries \cup {Absent}, b \in InitBackups }

OtherDirs(others) ==
    { [EmptyDir EXCEPT ![x] = e] : x \in others, e \in InitEntries }

\* a game directory that ships regular files under all four names of an
\* install with the default override and configuration file
OccupiedDir ==
    [EmptyDir EXCEPT !["dxgi.dll"] = File("orig"),
                     !["d3dcompiler_47.dll"] = File("orig"),
                     !["ReShade_shaders"] = File("orig"),
                     !["ReShade.ini"] = File("orig")]

InitDirs ==
    LinkDirs({ DllName(m) : m \in Overrides })
        \cup OtherDirs(Names \ { DllName(m) : m \in Overrides })
        \cup { OccupiedDir }

World(f, e, g, doc, onDisk) ==
    [fs |-> f, env |-> e, game |-> g, doc |-> doc, onDisk |-> onDisk]

DefaultGame == GameInfo("/games/A", 64, "dxgi")

Worlds ==
    { World(f, DefaultEnv, DefaultGame, NoRecords, FALSE) : f \in InitDirs }
        \cup { World(EmptyDir, e, DefaultGame, NoRecords, FALSE) : e \in InitEnvs }
        \cup { World(EmptyDir, DefaultEnv, g, NoRecords, FALSE) : g \in InitGames }
        \cup { World(EmptyDir, [DefaultEnv EXCEPT !.overlay = {64}],
                     GameInfo("/games/A", 32, "dxgi"), NoRecords, FALSE) }
        \cup { World(EmptyDir, DefaultEnv, DefaultGame, d, TRUE) : d \in InitDocs }

Snapshot == [fs |-> fs, env |-> env, cache |-> cache, disk |-> disk, merged |-> merged]

NoSnapshot ==
    [fs |-> EmptyDir, env |-> DefaultEnv, cache |-> NoRecords,
     disk |-> [exists |-> FALSE, doc |-> NoRecords], merged |-> EmptyMerged]

\* the record of a call: its arguments, its outcome, the state before it
Call(op) ==
    [ op |-> op, dll |-> "", dl |-> "", upto |-> 0, name |-> "", src |-> "",
      backup |-> FALSE, err |-> "", errpath |-> "", ret |-> FALSE,
      removed |-> << >>, done |-> 0, pre |-> NoSnapshot,
      path |-> "", rec |-> Nothing, val |-> Nothing, list |-> NoRecords,
      count |-> 0, created |-> 0 ]

\* GamesConfigManager.__init__ / _load: the cache is the document, or empty
InitIn(ws) ==
    \E w \in ws :
        /\ fs = w.fs
        /\ env = w.env
        /\ game = w.game
        /\ disk = [exists |-> w.onDisk, doc |-> w.doc]
        /\ cache = IF w.onDisk THEN w.doc ELSE NoRecords
        /\ last = Call("init")
        /\ prev = Call("init")
        /\ n = 0
        /\ ClassifierIdle
        /\ MergeIdle

Init == InitIn(Worlds)

-----------------------------------------------------------------------------
(* Calls *)

Step(call, s) ==
    /\ n < MaxOps
    /\ n' = n + 1
    /\ prev' = last
    /\ last' = [call EXCEPT !.pre = Snapshot]
    /\ fs' = s.fs
    /\ env' = s.env
    /\ cache' = s.cache
    /\ disk' = s.disk
    /\ UNCHANGED <<game, exe, ret, trees, merged>>

\* configure_dll_override: the override module the record is installed with
Configured(g, m) == [g EXCEPT !.dll_override = m]

\* install_to_game(game) run to its return or to the error it raises
Install(m, dl) ==
    LET r == InstallToGame(St(fs, env, cache, disk), Configured(game, m), dl, 5)
    IN  /\ dl = "fail" => ~SharedExists(env, D3dSrc(game.architecture))
        /\ Step([Call("install") EXCEPT !.dll = m, !.dl = dl, !.upto = 5, !.err = r.err,
                    !.errpath = r.errpath, !.done = r.done, !.ret = (r.err = "")], r)

\* install_to_game(game) interrupted after upto steps
InstallInterrupted(m, upto) ==
    LET r == InstallToGame(St(fs, env, cache, disk), Configured(game, m), "ok", upto)
    IN  /\ r.err = ""
        /\ Step([Call("interrupted") EXCEPT !.dll = m, !.dl = "ok", !.upto = upto,
                    !.done = r.done], r)

\* uninstall_from_game(game.install_path)
Uninstall ==
    LET r == UninstallFromGame(fs)
    IN  Step([Call("uninstall") EXCEPT !.removed = r.removed, !.ret = TRUE],
             [St(fs, env, cache, disk) EXCEPT !.fs = r.fs])

\* run_uninstall_flow once the user has confirmed: uninstall, then forget the
\* record when something was removed
RunUninstallFlow ==
    LET r  == UninstallFromGame(fs)
        sr == IF r.removed # << >>
              THEN StoreRemove(cache, disk, game.path)
              ELSE [cache |-> cache, disk |-> disk]
    IN  Step([Call("uninstall_flow") EXCEPT !.removed = r.removed, !.ret = TRUE],
             [St(fs, env, cache, disk) EXCEPT !.fs = r.fs, !.cache = sr.cache,
                                              !.disk = sr.disk])

Next ==
    \/ \E m \in Overrides, dl \in {"ok", "fail"} : Install(m, dl)
    \/ \E m \in Overrides, upto \in InterruptPoints : InstallInterrupted(m, upto)
    \/ Uninstall
    \/ RunUninstallFlow

Spec == Init /\ [][Next]_vars

-----------------------------------------------------------------------------
(* The Link Manager on its own: safe_unlink and safe_symlink applied to the *)
(* entries of a directory                                                   *)

\* the names the Link Manager is called on
CallTargets == { "dxgi.dll", "d3dcompiler_47.dll", "ReShade_shaders" }

CallNames ==
    CallTargets \cup { BackupPath(t) : t \in CallTargets } \cup { "game.exe", "save.backup" }

\* the sources safe_symlink is given
CallSources == { "M/reshade/latest/ReShade64.dll", ShadersPath }

LinkWorlds ==
    { World(f, DefaultEnv, DefaultGame, NoRecords, FALSE) :
        f \in LinkDirs(CallTargets) \cup OtherDirs({ "game.exe", "save.backup" }) }

InitLink == InitIn(LinkWorlds)

\* safe_unlink(install_dir / x)
CallSafeUnlink(x) ==
    LET r == SafeUnlink(fs, x)
    IN  Step([Call("safe_unlink") EXCEPT !.name = x, !.ret = r.ret],
             [St(fs, env, cache, disk) EXCEPT !.fs = r.fs])

\* safe_symlink(src, install_dir / x, backup)
CallSafeSymlink(src, x, backup) ==
    LET r == SafeSymlink(env, fs, src, x, backup)
    IN  Step([Call("safe_symlink") EXCEPT !.name = x, !.src = src, !.backup = backup,
                !.err = r.err, !.ret = (r.err = "")],
             [St(fs, env, cache, disk) EXCEPT !.fs = r.fs])

NextLink ==
    \/ \E x \in CallNames : CallSafeUnlink(x)
    \/ \E src \in CallSources, x \in CallTargets, backup \in BOOLEAN :
           CallSafeSymlink(src, x, backup)

SpecLink == InitLink /\ [][NextLink]_vars

-----------------------------------------------------------------------------
(* The Executable Classifier: one executable is classified for the target, *)
(* then the user confirms or changes the override module                   *)

\* the executables: a machine-type word, an import table (or none), the
\* statement of the structured parse that raises (if any), and whether the
\* raw header can be read
Exes ==
    { [machine |-> m, table |-> TRUE, imports |-> i, fails |-> f, raw |-> r] :
        m \in MachineTypes,
        i \in { t \in SUBSET ImportNames : Cardinality(t) <= MaxImports },
        f \in { "none", "open", "imports", "close" },
        r \in { "ok", "fail" } }
    \cup
    { [machine |-> m, table |-> FALSE, imports |-> {}, fails |-> f, raw |-> r] :
        m \in MachineTypes, f \in { "none", "open", "close" }, r \in { "ok", "fail" } }

InitPE ==
    /\ fs = EmptyDir
    /\ env = DefaultEnv
    /\ cache = NoRecords
    /\ disk = [exists |-> FALSE, doc |-> NoRecords]
    /\ game = DefaultGame
    /\ last = Call("init")
    /\ prev = Call("init")
    /\ n = 0
    /\ exe \in Exes
    /\ ret = NoResult
    /\ MergeIdle

\* the directory of an executable: exe.parent
ExeParent(p) ==
    CASE p = "/games/A/game.exe"         -> "/games/A"
      [] p = "/games/A/old.exe"          -> "/games/A"
      [] p = "/games/A/bin/launcher.exe" -> "/games/A/bin"
      [] p = "/games/A/bin/game.exe"     -> "/games/A/bin"

\* exe_path.exists() of a saved executable: /games/A/game.exe is the entry
\* game.exe of the directory the model tracks, no other executable exists
ExeExists(e, f, p) == p = "/games/A/game.exe" /\ Exists(e, f, "game.exe")

\* the saved record, when select_exe_for_analysis uses it
SavedConfig(c, g) ==
    IF TryGet(c, g.path).val.found /\ TryGet(c, g.path).val.game.selected_exe # None
    THEN TryGet(c, g.path).val
    ELSE Nothing

\* the executable to analyze: the only one, none, or the one the user picks
ExeToAnalyze(g, choice) ==
    IF Len(g.exe_files) = 1 THEN g.exe_files[1]
    ELSE IF Len(g.exe_files) = 0 THEN None
    ELSE choice

\* select_exe_for_analysis from the choice of the executable on
AnalyzeChosen(g, x, picked) ==
    IF picked = None
    THEN [game |-> g, ret |-> NoResult, analyzed |-> FALSE, picked |-> None]
    ELSE [game |-> [g EXCEPT !.architecture = AnalyzeExecutable(x).arch,
                             !.detected_api = AnalyzeExecutable(x).api,
                             !.dll_override = AnalyzeExecutable(x).dll,
                             !.install_path = ExeParent(picked),
                             !.selected_exe = picked],
          ret |-> AnalyzeExecutable(x), analyzed |-> TRUE, picked |-> picked]

\* the saved record copied into the target
UseSaved(g, saved) ==
    [game |-> [g EXCEPT !.selected_exe = saved.selected_exe,
                        !.architecture = saved.architecture,
                        !.detected_api = saved.detected_api,
                        !.dll_override = saved.dll_override,
                        !.install_path = saved.install_path],
     ret |-> NoResult, analyzed |-> FALSE, picked |-> None]

\* select_exe_for_analysis that does not test whether the saved executable
\* still exists
SelectExeSavedUnchecked(c, e, f, g, x, choice) ==
    IF SavedConfig(c, g).found
    THEN UseSaved(g, SavedConfig(c, g).game)
    ELSE AnalyzeChosen(g, x, ExeToAnalyze(g, choice))

\* select_exe_for_analysis(game, installer): the target it returns, the result
\* of analyze_executable when it ran, the executable analyzed
SelectExe(c, e, f, g, x, choice) ==
    IF SavedConfig(c, g).found /\ ExeExists(e, f, SavedConfig(c, g).game.selected_exe)
    THEN UseSaved(g, SavedConfig(c, g).game)
    ELSE AnalyzeChosen(g, x, ExeToAnalyze(g, choice))

\* what the user may pick among several executables: one of the first 20, or
\* nothing
ExeChoices(g) == Range(g.exe_files) \cup { None }

\* select_exe_for_analysis(game, installer) with the pick of the user; the
\* call is recorded as "classify" when analyze_executable ran
SelectExeForAnalysis(choice) ==
    LET r == SelectExe(cache, env, fs, game, exe, choice)
    IN  /\ last.op = "init"
        /\ ret' = IF r.analyzed THEN r.ret ELSE ret
        /\ game' = r.game
        /\ prev' = last
        /\ last' = [Call(IF r.analyzed THEN "classify" ELSE "select") EXCEPT
                       !.pre = Snapshot, !.rec = Just(game), !.path = r.picked,
                       !.ret = r.analyzed]
        /\ n' = n + 1
        /\ UNCHANGED <<fs, env, cache, disk, exe, trees, merged>>

\* configure_dll_override: the user picks one of DLL_OPTIONS, or nothing
ConfigureDllOverride(result) ==
    /\ last.op \in { "classify", "select" }
    /\ game' = IF result # None THEN Configured(game, result) ELSE game
    /\ prev' = last
    /\ last' = [Call("configure") EXCEPT !.dll = result]
    /\ n' = n + 1
    /\ UNCHANGED <<fs, env, cache, disk, exe, ret, trees, merged>>

NextPE ==
    \/ \E choice \in ExeChoices(game) : SelectExeForAnalysis(choice)
    \/ \E result \in Range(DLL_OPTIONS) \cup {None} : ConfigureDllOverride(result)

SpecPE == InitPE /\ [][NextPE]_vars

-----------------------------------------------------------------------------
(* The saved configuration and the classifier: select_exe_for_analysis over
   stores that hold a record of the target *)

\* a target as the scan or browse_for_game builds it: nothing selected yet
ScannedGame(p, files) ==
    [GameInfo(p, 64, "dxgi") EXCEPT !.exe_files = files, !.install_path = p,
                                    !.selected_exe = None]

ScannedGames ==
    { ScannedGame(p, files) :
        p \in { "/games/A", "/mnt/A" },
        files \in { << >>, << "/games/A/game.exe" >>,
                    << "/games/A/game.exe", "/games/A/bin/launcher.exe" >> } }

\* a record saved by an earlier install: 32-bit, dx9, the user's override
\* dinput8, installed into /games/A/bin
SavedEntry(selected) ==
    [ToDict(GameInfo("/games/A", 32, "dinput8")) EXCEPT
        !.detected_api = "dx9", !.install_path = "/games/A/bin", !.selected_exe = selected]

\* the stores: empty; a record whose executable is /games/A/game.exe, one
\* whose executable is gone, one with no executable; a record with the
\* required fields and an executable only; a malformed one; another target's
SelectDocs ==
    { NoRecords }
    \cup { [x \in {"/games/A"} |-> SavedEntry(sel)] :
             sel \in { "/games/A/game.exe", "/games/A/old.exe", None } }
    \cup { [x \in {"/games/A"} |-> [name |-> "A", path |-> "/games/A",
                                     selected_exe |-> "/games/A/game.exe"]],
           [x \in {"/games/A"} |-> [name |-> "A", selected_exe |-> "/games/A/game.exe"]],
           [x \in {"/games/B"} |-> SavedEntry("/games/A/game.exe")] }

\* the executables select_exe_for_analysis may be given to analyze
SelectExes ==
    { [machine |-> IMAGE_FILE_MACHINE_I386, table |-> TRUE, imports |-> {"d3d9.dll"},
       fails |-> "none", raw |-> "ok"],
      [machine |-> 34404, table |-> TRUE, imports |-> {"d3d12.dll", "kernel32.dll"},
       fails |-> "none", raw |-> "ok"],
      [machine |-> 34404, table |-> FALSE, imports |-> {}, fails |-> "none", raw |-> "ok"],
      [machine |-> IMAGE_FILE_MACHINE_I386, table |-> FALSE, imports |-> {},
       fails |-> "open", raw |-> "ok"] }

InitSelect ==
    /\ fs \in { EmptyDir, [EmptyDir EXCEPT !["game.exe"] = File("orig")] }
    /\ env = DefaultEnv
    /\ cache \in SelectDocs
    /\ disk = [exists |-> cache # NoRecords, doc |-> cache]
    /\ game \in ScannedGames
    /\ last = Call("init")
    /\ prev = Call("init")
    /\ n = 0
    /\ exe \in SelectExes
    /\ ret = NoResult
    /\ MergeIdle

NextSelect ==
    \/ \E choice \in ExeChoices(game) : SelectExeForAnalysis(choice)
    \/ \E result \in Range(DLL_OPTIONS) \cup {None} : ConfigureDllOverride(result)

SpecSelect == InitSelect /\ [][NextSelect]_vars

-----------------------------------------------------------------------------
(* The Target Configuration Store on its own: a GamesConfigManager built   *)
(* over a document, then get, save, remove, list_all and fresh instances   *)

\* the records given to save: discovered under the directory, under a symlink
\* to it, or under a path that does not exist; with and without candidate
\* executables; installed where discovered or in a subdirectory
StoreGame(p, e, sub) ==
    [GameInfo(p, 64, "dxgi") EXCEPT
        !.exe_files    = e,
        !.install_path = IF sub THEN "/games/A/bin" ELSE p,
        !.selected_exe = IF sub THEN "/games/A/bin/game.exe" ELSE None]

StoreGames ==
    { StoreGame(p, e, FALSE) :
        p \in { "/games/A", "/mnt/A", "/games/C" },
        e \in { << >>, << "/games/A/bin/game.exe" >> } }
    \cup
    { StoreGame(p, e, TRUE) :
        p \in { "/games/A", "/mnt/A" },
        e \in { << >>, << "/games/A/bin/game.exe" >> } }

\* the paths given to get and remove
StorePaths == { "/games/A", "/mnt/A", "/games/B", "/games/C" }

\* well-formed entries of a document: a full one, and one with only the
\* required fields
EntryA == ToDict(GameInfo("/games/A", 64, "d3d9"))
EntryB == [name |-> "B", path |-> "/games/B"]

\* malformed entries: no name, no path, a string, null, a null path, a
\* numeric path, a numeric install_path
Malformed ==
    { [path |-> "/games/B"],
      [name |-> "B"],
      NonObject("string"),
      NonObject("null"),
      [name |-> "B", path |-> None],
      [name |-> "B", path |-> JsonNumber],
      [name |-> "B", path |-> "/games/B", install_path |-> JsonNumber] }

\* the objects games.json may hold
StoreDocs ==
    { NoRecords,
      [x \in {"/games/A"} |-> EntryA],
      [x \in {"/games/B"} |-> EntryB],
      [x \in {"/games/A", "/games/B"} |-> IF x = "/games/A" THEN EntryA ELSE EntryB] }
    \cup { [x \in {"/games/B"} |-> m] : m \in Malformed }
    \cup { [x \in {"/games/A", "/games/B"} |-> IF x = "/games/A" THEN EntryA ELSE m] :
             m \in Malformed }

\* games.json: missing, unreadable, not JSON, not text, JSON that is not an
\* object, or one of the objects
StoreDisks ==
    { [exists |-> FALSE, doc |-> NoRecords] }
    \cup { [exists |-> TRUE, doc |-> v] :
             v \in { Failure("OSError"), Failure("JSONDecodeError"),
                     Failure("UnicodeDecodeError"),
                     NonObject("list"), NonObject("null") } \cup StoreDocs }

InitStore ==
    /\ fs = EmptyDir
    /\ env = DefaultEnv
    /\ game = DefaultGame
    /\ disk \in StoreDisks
    /\ cache = Load(disk).cache
    /\ last = [Call("init") EXCEPT !.err = Load(disk).err]
    /\ prev = Call("init")
    /\ n = 0
    /\ ClassifierIdle
    /\ MergeIdle

\* an instance exists: the constructor did not raise
Constructed == last.op = "init" => last.err = ""

\* the outcome r of a call on the store, recorded
StoreStep(call, r) ==
    /\ Constructed
    /\ Step([call EXCEPT !.err = r.err, !.ret = (r.err = "")],
            [St(fs, env, cache, disk) EXCEPT !.cache = r.cache, !.disk = r.disk])

\* games_config.save(g)
Save(g) ==
    StoreStep([Call("save") EXCEPT !.rec = Just(g), !.path = g.path], TrySave(cache, disk, g))

\* games_config.remove(p)
Remove(p) ==
    StoreStep([Call("remove") EXCEPT !.path = p], TryRemove(cache, disk, p))

\* games_config.get(p)
Get(p) ==
    StoreStep([Call("get") EXCEPT !.path = p, !.val = TryGet(cache, p).val],
              [cache |-> cache, disk |-> disk, err |-> TryGet(cache, p).err])

\* games_config.list_all()
ListAll ==
    StoreStep([Call("list_all") EXCEPT !.list = TryListAll(cache).list],
              [cache |-> cache, disk |-> disk, err |-> TryListAll(cache).err])

\* GamesConfigManager(config_path): a fresh instance over the same document
Construct ==
    StoreStep(Call("construct"),
              [cache |-> Load(disk).cache, disk |-> disk, err |-> Load(disk).err])

NextStore ==
    \/ \E g \in StoreGames : Save(g)
    \/ \E p \in StorePaths : Remove(p)
    \/ \E p \in StorePaths : Get(p)
    \/ ListAll
    \/ Construct

SpecStore == InitStore /\ [][NextStore]_vars

-----------------------------------------------------------------------------
(* The Merge Engine: merge_shaders run over source directories that do not *)
(* change, on destinations that may hold entries already                   *)

\* a file of a source directory
SourceFiles ==
    { << d, x >> : d \in Range(SourceDirs) \ {"External_shaders"}, x \in MergeNames }
        \cup { << "External_shaders", x >> : x \in LooseNames }

\* the source directories holding the files fl
TreesOf(fl) == [d \in Range(SourceDirs) |-> { x \in LooseNames : << d, x >> \in fl }]

\* what a destination may hold under a name before a merge: nothing, a
\* regular file, or a symlink left by an earlier merge to a file now gone
InitMergedEntries == { MAbsent, MFile, MLink("repo0/Shaders", "old") }

InitMerge ==
    /\ fs = EmptyDir
    /\ env = DefaultEnv
    /\ cache = NoRecords
    /\ disk = [exists |-> FALSE, doc |-> NoRecords]
    /\ game = DefaultGame
    /\ last = Call("init")
    /\ prev = Call("init")
    /\ n = 0
    /\ ClassifierIdle
    /\ \E fl \in { t \in SUBSET SourceFiles : Cardinality(t) <= MaxFiles } : trees = TreesOf(fl)
    /\ merged \in [{"Shaders", "Textures"} -> [MergeNames -> InitMergedEntries]]

\* merge_shaders()
Merge ==
    /\ n < MaxOps
    /\ n' = n + 1
    /\ merged' = MergeShaders(merged, trees).merged
    /\ prev' = last
    /\ last' = [Call("merge") EXCEPT !.count = Cardinality(MergeShaders(merged, trees).seen),
                                     !.created = MergeShaders(merged, trees).created,
                                     !.pre = Snapshot,
                                     !.ret = TRUE]
    /\ UNCHANGED <<fs, env, cache, disk, game, exe, ret, trees>>

NextMerge == Merge

SpecMerge == InitMerge /\ [][NextMerge]_vars

-----------------------------------------------------------------------------
(* Properties *)

\* the state outside the install directory is as it was before the last call
SharedUnchanged ==
    /\ env = last.pre.env
    /\ cache = last.pre.cache
    /\ disk = last.pre.disk

\* C1: safe_unlink(path) never deletes a non-symlink.  If path is a regular
\* file, a directory or absent, the directory is left unchanged and the result
\* is False; if path is a symlink, exactly that entry is removed, nothing else
\* (its destination included) changes, and the result is True.
C1_SafeUnlinkOnlySymlinks ==
    last.op = "safe_unlink" =>
        LET x      == last.name
            before == last.pre.fs
        IN  /\ SharedUnchanged
            /\ IF before[x].k = "link"
               THEN last.ret /\ fs = [before EXCEPT ![x] = Absent]
               ELSE ~last.ret /\ fs = before

\* a symlink was removed by one call, and a later call on a regular file
\* returned False and kept the file
C1_Witness ==
    /\ prev.op = "safe_unlink" /\ prev.ret /\ prev.pre.fs[prev.name].k = "link"
    /\ last.op = "safe_unlink" /\ ~last.ret /\ last.pre.fs[last.name].k = "file"
    /\ fs[last.name].k = "file"

\* the entries an install call turned into symlinks
LinkedBy(call, after) ==
    { x \in Names : after[x].k = "link" /\ after[x] # call.pre.fs[x] }

\* C2: uninstall completeness.  Running uninstall_from_game right after a
\* successful install_to_game removes every symlink that install created, for
\* every record and every global configuration (a configuration-file name
\* other than the default included).
C2_UninstallRemovesEveryInstalledLink ==
    (prev.op = "install" /\ prev.ret /\ last.op = "uninstall") =>
        \A x \in LinkedBy(prev, last.pre.fs) : fs[x].k # "link"

\* the configuration store holds no record for the target's path
NoRecordFor(path) == GameKey(path) \notin DOMAIN cache

FixedNames ==
    { "dxgi.dll", "d3d9.dll", "d3d11.dll", "d3d10.dll", "opengl32.dll", "d3d8.dll",
      "ddraw.dll", "dinput8.dll", "d3dcompiler_47.dll", "ReShade.ini",
      "ReShade_shaders", "ReShade32.json", "ReShade64.json" }

NoFixedSymlink(f) == \A x \in FixedNames : f[x].k # "link"

\* C4 as stated: for a previously installed target the first uninstall returns
\* a non-empty list, an immediately following second one returns an empty list
\* and changes nothing, neither raises; on a directory that was never
\* installed into, uninstall returns an empty list.
C4_UninstallTwiceAndNeverInstalled ==
    /\ (prev.op = "install" /\ prev.ret /\ last.op = "uninstall") =>
          last.removed # << >> /\ last.err = ""
    /\ (prev.op = "uninstall" /\ last.op = "uninstall") =>
          /\ last.removed = << >> /\ last.err = ""
          /\ fs = last.pre.fs /\ SharedUnchanged
    /\ (n = 1 /\ last.op = "uninstall") => last.removed = << >> /\ last.err = ""

\* C4 as amended: as stated for the installed target and for the second call;
\* uninstall returns an empty list and changes nothing on every directory that
\* holds no symlink under any of the 13 fixed names (a directory never
\* installed into returns the symlinks it holds under those names).
C4_UninstallTwice ==
    /\ (prev.op = "install" /\ prev.ret /\ last.op = "uninstall") =>
          last.removed # << >> /\ last.err = ""
    /\ (prev.op = "uninstall" /\ last.op = "uninstall") =>
          /\ last.removed = << >> /\ last.err = ""
          /\ fs = last.pre.fs /\ SharedUnchanged
    /\ (last.op = "uninstall" /\ NoFixedSymlink(last.pre.fs)) =>
          /\ last.removed = << >> /\ last.err = ""
          /\ fs = last.pre.fs /\ SharedUnchanged
    /\ (last.op = "uninstall" /\ ~NoFixedSymlink(last.pre.fs)) =>
          last.removed # << >>

\* a first uninstall removed something and the second one found nothing
C4_Witness ==
    /\ prev.op = "uninstall" /\ prev.removed # << >>
    /\ last.op = "uninstall" /\ last.removed = << >>
    /\ fs = last.pre.fs

\* C5: uninstall touches only the fixed filename list.  uninstall_from_game
\* checks exactly the 13 names and removes an entry only when it is a symlink;
\* every other entry, every regular file or directory carrying one of the 13
\* names and every *.backup file is left unchanged, and the returned list names
\* exactly the removed entries.
C5_UninstallFrame ==
    last.op \in {"uninstall", "uninstall_flow"} =>
        /\ Cardinality(FixedNames) = 13
        /\ \A x \in Names :
              fs[x] = IF x \in FixedNames /\ last.pre.fs[x].k = "link"
                      THEN Absent
                      ELSE last.pre.fs[x]
        /\ Range(last.removed) = { x \in FixedNames : last.pre.fs[x].k = "link" }
        /\ Len(last.removed) = Cardinality(Range(last.removed))
        /\ env = last.pre.env

\* an uninstall removed a symlink and kept a regular file carrying one of the
\* 13 names and a backup file
C5_Witness ==
    /\ last.op = "uninstall" /\ last.removed # << >>
    /\ \E x \in FixedNames : last.pre.fs[x].k = "file" /\ fs[x] = last.pre.fs[x]
    /\ \E x \in FixedNames \cap LinkNames :
          last.pre.fs[BackupPath(x)].k = "file" /\ fs[BackupPath(x)] = last.pre.fs[BackupPath(x)]

\* C6: install with a missing overlay binary.  If ReShade<arch>.dll does not
\* exist under the current version directory, install_to_game raises an error
\* naming the expected path after doing nothing: no symlink, no backup, no
\* download and no record.
C6_MissingOverlayLeavesNoTrace ==
    (last.op = "install" /\
     ~SharedExists(last.pre.env,
                   ReshadeDll(GetCurrentVersion(last.pre.env), game.architecture))) =>
        /\ last.err = "FileNotFoundError"
        /\ last.errpath = ReshadeDll(GetCurrentVersion(last.pre.env), game.architecture)
        /\ last.done = 0
        /\ fs = last.pre.fs
        /\ SharedUnchanged

\* an install failed for the missing 64-bit overlay library and named it
C6_Witness ==
    /\ last.op = "install" /\ last.err = "FileNotFoundError"
    /\ game.architecture = 64 /\ 64 \notin env.overlay
    /\ last.errpath = "M/reshade/6.1/ReShade64.dll"
    /\ fs = EmptyDir /\ cache = NoRecords

\* the whole state equals the snapshot sn
StateIs(sn) ==
    /\ fs = sn.fs
    /\ env = sn.env
    /\ cache = sn.cache
    /\ disk = sn.disk

\* C7: install idempotence.  Running install_to_game twice in succession with
\* the same record, unchanged global paths and the same outcome of the
\* compiler-helper download leaves the install directory (symlinks, their
\* destinations, every .backup entry), the shared paths and the store after
\* the second run as they were after the first, for every initial content of
\* the install directory, also when both runs raise.
C7_InstallIdempotent ==
    (prev.op = "install" /\ last.op = "install" /\ prev.dll = last.dll /\ prev.dl = last.dl) =>
        /\ StateIs(last.pre)
        /\ last.err = prev.err

\* an install backed a regular file up and linked the shim, and the same
\* install run again left the link, the backup and the record as they were
C7_Witness ==
    /\ prev.op = "install" /\ prev.ret /\ last.op = "install" /\ last.ret
    /\ prev.dll = last.dll
    /\ prev.pre.fs[DllName(last.dll)] = File("orig")
    /\ fs[BackupPath(DllName(last.dll))] = File("orig")
    /\ fs[DllName(last.dll)].k = "link"
    /\ "/games/A" \in DOMAIN cache

\* the state an uninterrupted, successful install of module m reaches from sn
Uninterrupted(sn, m) ==
    InstallToGame(St(sn.fs, sn.env, sn.cache, sn.disk), Configured(game, m), "ok", 5)

\* an install that stopped part-way: interrupted after some of its steps, or
\* ended by the error of the compiler-helper download
Partial(call) ==
    \/ call.op = "interrupted"
    \/ call.op = "install" /\ call.err = "RuntimeError"

\* C8: repair after a partial install.  If an install stops after any prefix
\* of its steps (an error raised while obtaining d3dcompiler_47.dll after the
\* shim was linked included), re-running install_to_game to completion with
\* the same record yields the install directory, shared paths and store that
\* one uninterrupted install from the same initial state yields.
C8_RerunRepairsPartialInstall ==
    (Partial(prev) /\ last.op = "install" /\ last.ret /\ prev.dll = last.dll) =>
        LET u == Uninterrupted(prev.pre, last.dll)
        IN  /\ u.err = ""
            /\ fs = u.fs
            /\ env = u.env
            /\ cache = u.cache
            /\ disk = u.disk

\* the download failed after the shim had replaced (and backed up) a regular
\* file, and the install run again completed
C8_Witness ==
    /\ prev.op = "install" /\ prev.err = "RuntimeError" /\ prev.done = 1
    /\ prev.pre.fs[DllName(prev.dll)] = File("orig")
    /\ last.pre.fs[DllName(prev.dll)].k = "link"
    /\ last.op = "install" /\ last.ret /\ last.dll = prev.dll
    /\ fs["ReShade_shaders"].k = "link"
    /\ fs[BackupPath(DllName(prev.dll))] = File("orig")

\* the resolved overlay library of each architecture
OverlayPaths == { "M/reshade/6.1/ReShade32.dll", "M/reshade/6.1/ReShade64.dll" }

\* the <module>.dll names that are symlinks to the overlay library
ModuleLinks(f) ==
    { x \in { DllName(DLL_OPTIONS[i]) : i \in DOMAIN DLL_OPTIONS } :
        f[x].k = "link" /\ f[x].t \in OverlayPaths }

CompleteCalls == { "init", "install", "uninstall", "uninstall_flow" }

\* C9: mutual exclusion of override modules.  After any sequence of
\* install_to_game and uninstall_from_game calls against one install
\* directory, installs with different dll_override values included, at most
\* one of the eight <module>.dll names is a symlink to the overlay library.
C9_AtMostOneModuleLinked ==
    (last.op \in CompleteCalls /\ prev.op \in CompleteCalls) =>
        Cardinality(ModuleLinks(fs)) <= 1

\* the three links every successful install makes
ThreeLinks(arch, m) ==
    /\ fs[DllName(m)] =
          Link(IF arch = 32 THEN "M/reshade/6.1/ReShade32.dll"
                            ELSE "M/reshade/6.1/ReShade64.dll")
    /\ fs["d3dcompiler_47.dll"] =
          Link(IF arch = 32 THEN "M/d3dcompiler_47.dll.32" ELSE "M/d3dcompiler_47.dll.64")
    /\ fs["ReShade_shaders"] = Link("M/ReShade_shaders")

\* C10 as stated: whenever install_to_game returns successfully the install
\* directory contains all four symlinks: the shim, the compiler helper, the
\* shader directory and the configuration file name pointing to the shared
\* configuration file.
C10_FourLinks ==
    (last.op = "install" /\ last.ret) =>
        /\ ThreeLinks(game.architecture, last.dll)
        /\ env.global_ini \in Names
        /\ fs[env.global_ini] = Link(IniSrc(env.global_ini))

\* C10 as amended: whenever install_to_game returns successfully the install
\* directory contains the shim, compiler-helper and shader-directory symlinks,
\* each pointing to its shared source; it contains the configuration-file
\* symlink when the configuration-file name is not empty and the shared
\* configuration file exists, and otherwise the install has made no link under
\* the configuration-file name.
C10_ThreeLinksAndConfigWhenPresent ==
    (last.op = "install" /\ last.ret) =>
        /\ ThreeLinks(game.architecture, last.dll)
        /\ SharedExists(env, D3dSrc(game.architecture))
        /\ IF env.global_ini # "" /\ env.ini_src
           THEN fs[env.global_ini] =
                   Link(IF env.global_ini = "ReShade.ini" THEN "M/ReShade.ini"
                                                          ELSE "M/Custom.ini")
           ELSE \A x \in {"ReShade.ini", "Custom.ini"} : fs[x] = last.pre.fs[x]

\* an install succeeded without a shared configuration file and made three links
C10_Witness ==
    /\ last.op = "install" /\ last.ret /\ ~env.ini_src
    /\ ThreeLinks(game.architecture, last.dll)
    /\ fs["ReShade.ini"] = Absent

\* the API each recognized library stands for, and the module of each API
LibraryApi ==
    [ lib \in { "d3d12.dll", "d3d11.dll", "dxgi.dll", "d3d10.dll", "d3d10_1.dll",
                "d3d9.dll", "opengl32.dll", "d3d8.dll" } |->
        CASE lib = "d3d12.dll"                        -> "dx12"
          [] lib \in { "d3d11.dll", "dxgi.dll" }      -> "dx11"
          [] lib \in { "d3d10.dll", "d3d10_1.dll" }   -> "dx10"
          [] lib = "d3d9.dll"                         -> "dx9"
          [] lib = "opengl32.dll"                     -> "opengl"
          [] lib = "d3d8.dll"                         -> "dx8" ]

FixedMapping ==
    [ api \in { "dx12", "dx11", "dx10", "dx9", "opengl", "dx8" } |->
        CASE api = "dx12"   -> "dxgi"
          [] api = "dx11"   -> "dxgi"
          [] api = "dx10"   -> "d3d10"
          [] api = "dx9"    -> "d3d9"
          [] api = "opengl" -> "opengl32"
          [] api = "dx8"    -> "d3d8" ]

PriorityOrder == << "dx12", "dx11", "dx10", "dx9", "opengl", "dx8" >>

\* the spellings of a library name that occur in import tables of the model
Spellings(lib) ==
    CASE lib = "d3d9.dll"     -> { "d3d9.dll", "D3D9.DLL" }
      [] lib = "d3d11.dll"    -> { "d3d11.dll", "D3D11.dll" }
      [] lib = "opengl32.dll" -> { "opengl32.dll", "OpenGL32.DLL" }
      [] OTHER                -> { lib }

\* the recognized libraries the executable imports, in any spelling
ImportedLibraries == { lib \in DOMAIN LibraryApi : Spellings(lib) \cap exe.imports # {} }
ImportedApis == { LibraryApi[lib] : lib \in ImportedLibraries }

\* the structured parse of the classified executable ran to its end
Parsed == last.op = "classify" /\ exe.fails = "none"

\* C11: classifier priority order.  For every set of imported library names
\* whose structured parse completes, analyze_executable returns the API of the
\* highest-priority match in the order d3d12 > d3d11 or dxgi > d3d10 or
\* d3d10_1 > d3d9 > opengl32 > d3d8, with that API's module; an executable
\* importing d3d11.dll and d3d9.dll is dx11/dxgi; library names match in any
\* letter case.
C11_PriorityOrder ==
    Parsed =>
        \A i \in DOMAIN PriorityOrder :
            (/\ PriorityOrder[i] \in ImportedApis
             /\ \A j \in 1 .. (i - 1) : PriorityOrder[j] \notin ImportedApis)
                => ret.api = PriorityOrder[i] /\ ret.dll = FixedMapping[PriorityOrder[i]]

\* an executable importing D3D11.dll and d3d9.dll was classified dx11/dxgi
C11_Witness ==
    /\ Parsed
    /\ { "D3D11.dll", "d3d9.dll" } \subseteq exe.imports
    /\ "d3d12.dll" \notin exe.imports
    /\ ret.api = "dx11" /\ ret.dll = "dxgi"

\* C12: classifier mapping.  For every executable whose import table, parsed
\* to its end, contains exactly one recognized graphics library the result is
\* the pair of the fixed mapping for that library; with no recognized library
\* (or no import table) it is dx11 with module dxgi; the architecture is 32
\* exactly for the i386 machine type.
C12_FixedMapping ==
    Parsed =>
        /\ \A lib \in DOMAIN LibraryApi :
              ImportedLibraries = {lib} =>
                  ret.api = LibraryApi[lib] /\ ret.dll = FixedMapping[LibraryApi[lib]]
        /\ ImportedLibraries = {} => ret.api = "dx11" /\ ret.dll = "dxgi"
        /\ ret.arch = IF exe.machine = IMAGE_FILE_MACHINE_I386 THEN 32 ELSE 64

\* an executable importing only OpenGL32.DLL (and kernel32.dll) was classified
\* opengl/opengl32
C12_Witness ==
    /\ Parsed
    /\ exe.imports = { "OpenGL32.DLL", "kernel32.dll" }
    /\ ret.api = "opengl" /\ ret.dll = "opengl32"

\* C13: degraded classification.  Whenever the structured parse fails at any
\* point, before or after the architecture or the API was derived,
\* analyze_executable returns 32-bit with module d3d9 when the raw machine-type
\* word is 0x14C and the unconditional default (64, dx11, dxgi) otherwise,
\* also when the raw-header read fails.
C13_DegradedIsOneOfTwo ==
    (last.op = "classify" /\ exe.fails # "none") =>
        IF exe.raw = "ok" /\ exe.machine = IMAGE_FILE_MACHINE_I386
        THEN ret.arch = 32 /\ ret.dll = "d3d9"
        ELSE ret = Triple(64, "dx11", "dxgi")

\* the result is a degraded 32-bit one: module d3d9 forced by the raw header
Degraded32 ==
    /\ exe.fails # "none" /\ exe.raw = "ok" /\ exe.machine = IMAGE_FILE_MACHINE_I386
    /\ ret.arch = 32 /\ ret.dll = "d3d9"

\* C14 as stated: every triple analyze_executable returns, on the primary and
\* on the degraded path, has module = fixed-mapping(api), and a record's
\* override module differs from the mapping of its detected API only after an
\* explicit user override.
C14_ModuleFollowsApi ==
    last.op \in {"classify", "configure"} =>
        /\ ret.dll = FixedMapping[ret.api]
        /\ game.dll_override # FixedMapping[game.detected_api] =>
               last.op = "configure" /\ last.dll # None

\* C14 as amended: the triple has module = fixed-mapping(api) whenever the
\* structured parse completes and whenever the degraded path does not find
\* the 32-bit machine type; a degraded 32-bit result has module d3d9 whatever
\* its API; a record's override module differs from the mapping of its
\* detected API only after an explicit user override or a degraded 32-bit
\* classification, and the record carries the returned triple until then.
C14_ModuleFollowsApiUnlessDegraded32 ==
    last.op \in {"classify", "configure"} =>
        /\ ret.api \in DOMAIN FixedMapping
        /\ ret.dll = FixedMapping[ret.api] \/ Degraded32
        /\ exe.fails = "none" => ret.dll = FixedMapping[ret.api]
        /\ game.detected_api = ret.api /\ game.architecture = ret.arch
        /\ last.op = "classify" => game.dll_override = ret.dll
        /\ game.dll_override # FixedMapping[game.detected_api] =>
               (last.op = "configure" /\ last.dll # None) \/ Degraded32

\* an unparseable 32-bit executable was classified (32, dx11, d3d9)
C14_Witness ==
    /\ last.op = "classify" /\ exe.fails = "open" /\ exe.raw = "ok"
    /\ ret = Triple(32, "dx11", "d3d9")
    /\ game.dll_override = "d3d9" /\ game.detected_api = "dx11"

\* C15: store round trip.  For every record (a non-empty candidate-executable
\* list, an install directory other than the discovery path and a path that
\* does not exist included), save(record) followed by a fresh
\* GamesConfigManager on the same document and get(record.path) returns a
\* record equal to the saved one in all fields.
C15_RoundTripAllFields ==
    (last.op = "save" /\ last.err = "") =>
        /\ Load(disk).err = ""
        /\ TryGet(Load(disk).cache, last.path) = [val |-> Just(last.rec.game), err |-> ""]

\* two paths name the same directory
SameDirectory(p, q) == Resolve(p) = Resolve(q)

\* a saved record as it reads back: the candidate executables are not stored
Stored(g) == [g EXCEPT !.exe_files = << >>]

\* C16: resolved-path keying.  For two paths p and q that resolve to the same
\* directory, save of a record with path p followed by get(q) returns that
\* record (as stored), remove(q) deletes it, and a later save with path q
\* replaces it; a save adds at most the one key of the resolved path.
C16_ResolvedPathKeying ==
    /\ (last.op = "save" /\ last.err = "") =>
          DOMAIN cache = DOMAIN last.pre.cache \cup { Resolve(last.path) }
    /\ (prev.op = "save" /\ prev.err = "" /\ SameDirectory(prev.path, last.path)) =>
          /\ last.op = "get" => last.err = "" /\ last.val = Just(Stored(prev.rec.game))
          /\ last.op = "remove" =>
                /\ last.err = ""
                /\ DOMAIN cache = DOMAIN prev.pre.cache \ { Resolve(prev.path) }
                /\ \A q \in StorePaths :
                      SameDirectory(q, prev.path) => TryGet(cache, q).val = Nothing
          /\ last.op = "save" =>
                /\ last.err = ""
                /\ DOMAIN cache = DOMAIN last.pre.cache
                /\ cache[Resolve(prev.path)] = ToDict(last.rec.game)
                /\ TryGet(cache, prev.path).val = Just(Stored(last.rec.game))

\* a record saved under the symlinked path was found under the directory's
\* own path
C16_Witness ==
    /\ prev.op = "save" /\ prev.path = "/mnt/A"
    /\ last.op = "get" /\ last.path = "/games/A"
    /\ last.val.found /\ last.val.game.path = "/mnt/A"

\* the document does not load as a mapping: missing, unreadable, not JSON, or
\* JSON that is not an object
LoadFailure(d) == ~d.exists \/ IsFailure(d.doc) \/ ~IsObject(d.doc)

\* C17: store load failure degrades to an empty store.  When the document is
\* missing, unreadable, not valid JSON, or valid JSON that is not a mapping,
\* constructing GamesConfigManager does not fail, list_all() returns no
\* records, get returns nothing for every path, and a subsequent save
\* succeeds and yields a store holding exactly the saved record.
C17_LoadFailureIsEmptyStore ==
    /\ (n = 0 /\ LoadFailure(disk)) => last.err = ""
    /\ (n = 1 /\ LoadFailure(last.pre.disk)) =>
          /\ last.op = "list_all" => last.err = "" /\ DOMAIN last.list = {}
          /\ last.op = "get" => last.err = "" /\ last.val = Nothing
          /\ last.op = "save" =>
                /\ last.err = ""
                /\ cache = [x \in { Resolve(last.path) } |-> ToDict(last.rec.game)]
                /\ disk = StoreFlush(cache)

\* C18: write-through store.  After every save, and every remove that changes
\* the store, the on-disk document equals the in-memory mapping; remove of a
\* path with no record, get and list_all change neither memory nor disk; a
\* fresh instance constructed between operations lists exactly the records
\* the live instance lists.
C18_WriteThrough ==
    /\ (last.op = "save" /\ last.err = "") => disk = [exists |-> TRUE, doc |-> cache]
    /\ (last.op = "remove" /\ last.err = "") =>
          IF Resolve(last.path) \in DOMAIN last.pre.cache
          THEN /\ disk = [exists |-> TRUE, doc |-> cache]
               /\ DOMAIN cache = DOMAIN last.pre.cache \ { Resolve(last.path) }
          ELSE cache = last.pre.cache /\ disk = last.pre.disk
    /\ last.op \in {"get", "list_all"} => cache = last.pre.cache /\ disk = last.pre.disk
    /\ Constructed => Load(disk).err = "" /\ TryListAll(Load(disk).cache) = TryListAll(cache)

\* a record was saved, then removed, and the document follows the memory
C18_Witness ==
    /\ prev.op = "save" /\ prev.err = ""
    /\ last.op = "remove" /\ Resolve(last.path) \in DOMAIN last.pre.cache
    /\ disk.exists /\ disk.doc = cache /\ cache # last.pre.cache
    /\ last.pre.disk.doc = last.pre.cache

\* an entry from_dict accepts: an object with a name and a string path, whose
\* install_path and selected_exe, when present, are strings or null
WellFormed(v) ==
    /\ IsObject(v)
    /\ {"name", "path"} \subseteq DOMAIN v
    /\ v.path \notin { None, JsonNumber }
    /\ "install_path" \in DOMAIN v => v.install_path # JsonNumber
    /\ "selected_exe" \in DOMAIN v => v.selected_exe # JsonNumber

\* C19: per-entry tolerance.  When the loaded document mixes well-formed and
\* malformed entries (no name, no path, a non-object value, a null or
\* non-string path), list_all returns every well-formed record, with the
\* defaults for the fields it lacks, and skips each malformed one; get on a
\* malformed entry's key returns nothing; neither raises.
C19_PerEntryTolerance ==
    /\ (last.op = "list_all" /\ IsObject(cache)) =>
          /\ last.err = ""
          /\ DOMAIN last.list = { k \in DOMAIN cache : WellFormed(cache[k]) }
          /\ \A k \in DOMAIN last.list :
                /\ last.list[k].name = cache[k].name
                /\ last.list[k].path = cache[k].path
                /\ "architecture" \notin DOMAIN cache[k] =>
                      /\ last.list[k].architecture = 64
                      /\ last.list[k].detected_api = "dx11"
                      /\ last.list[k].dll_override = "dxgi"
                      /\ last.list[k].install_path = cache[k].path
    /\ (last.op = "get" /\ IsObject(cache) /\ Resolve(last.path) \in DOMAIN cache) =>
          /\ last.err = ""
          /\ last.val.found = WellFormed(cache[Resolve(last.path)])
          /\ last.val.found => last.val.game.path = cache[Resolve(last.path)].path

\* list_all returned the well-formed record of a document and skipped the
\* entry whose path is null
C19_Witness ==
    /\ last.op = "list_all" /\ n = 1
    /\ DOMAIN cache = { "/games/A", "/games/B" }
    /\ cache["/games/B"] = [name |-> "B", path |-> None]
    /\ DOMAIN last.list = { "/games/A" }
    /\ last.list["/games/A"].dll_override = "d3d9"

\* the repository or override tree a source directory belongs to
TreeOf(dir) ==
    CASE dir \in { "repo1/Shaders", "repo1/Textures" } -> "repo1"
      [] dir \in { "repo2/Shaders", "repo2/Textures" } -> "repo2"
      [] OTHER -> "External_shaders"

\* the positions, in the traversal, of the directories offering a file name
Holders(name) ==
    { i \in DOMAIN SourceDirs :
        name \in trees[SourceDirs[i]] /\ DestOf(SourceDirs[i], name) # "" }

\* the first directory of the traversal offering the name
FirstHolder(name) ==
    SourceDirs[CHOOSE i \in Holders(name) : \A j \in Holders(name) : i <= j]

\* two different trees offer the name
InTwoTrees(name) ==
    \E i, j \in Holders(name) : TreeOf(SourceDirs[i]) # TreeOf(SourceDirs[j])

\* the destinations holding a symlink of the name
LinksNamed(name) == { d \in DOMAIN merged : merged[d][name].k = "link" }

\* the one symlink of the name is the first copy's
FirstCopyLinked(name) ==
    /\ LinksNamed(name) = { DestOf(FirstHolder(name), name) }
    /\ merged[DestOf(FirstHolder(name), name)][name] = MLink(FirstHolder(name), name)
    /\ (\E i \in Holders(name) : TreeOf(SourceDirs[i]) # "External_shaders")
          => TreeOf(FirstHolder(name)) # "External_shaders"

\* C20 as stated: when two source trees both contain a file of the same name,
\* after merge_shaders the destination holds one symlink of that name and it
\* points to the copy of the tree that comes first in the traversal; the
\* External_shaders tree comes after every repository.
C20_FirstSourceWins ==
    last.op = "merge" =>
        \A name \in MergeNames : InTwoTrees(name) => FirstCopyLinked(name)

\* C20 as amended: for every file name the source directories offer, after
\* merge_shaders the destinations hold one symlink of that name, in the first
\* copy's destination and pointing to the first copy (a repository's copy
\* before External_shaders'), unless an entry that is not a symlink occupied
\* that name in that destination before the merge; then that entry is kept
\* and neither destination holds a symlink of the name.  A name no directory
\* offers is linked nowhere.
C20_FirstSourceWinsUnlessOccupied ==
    last.op = "merge" =>
        \A name \in MergeNames :
            IF Holders(name) = {} THEN LinksNamed(name) = {}
            ELSE IF last.pre.merged[DestOf(FirstHolder(name), name)][name].k = "file"
            THEN /\ LinksNamed(name) = {}
                 /\ merged[DestOf(FirstHolder(name), name)][name] = MFile
            ELSE FirstCopyLinked(name)

\* X.fx is in both repositories and in External_shaders; the stale symlink
\* the destination held was replaced by one to the first repository's copy
C20_Witness ==
    /\ last.op = "merge"
    /\ { "repo1/Shaders", "repo2/Shaders", "External_shaders" } \subseteq
          { SourceDirs[i] : i \in Holders("X.fx") }
    /\ last.pre.merged["Shaders"]["X.fx"] = MLink("repo0/Shaders", "old")
    /\ merged["Shaders"]["X.fx"] = MLink("repo1/Shaders", "X.fx")

\* C21: merge idempotence.  Running merge_shaders twice in succession over
\* unchanged source directories leaves the same destination names and link
\* destinations after the second run as after the first, reports the same
\* count and creates the same number of links both times, for every initial
\* content of the destinations.
C21_MergeIdempotent ==
    (prev.op = "merge" /\ last.op = "merge") =>
        /\ merged = last.pre.merged
        /\ last.count = prev.count
        /\ last.created = prev.created

\* two merges ran over a destination that first held a stale symlink and a
\* regular file, and the second changed nothing while creating a link again
C21_Witness ==
    /\ prev.op = "merge" /\ last.op = "merge"
    /\ prev.pre.merged["Shaders"]["X.fx"] = MLink("repo0/Shaders", "old")
    /\ prev.pre.merged["Textures"]["T.PNG"] = MFile
    /\ merged["Shaders"]["X.fx"].k = "link"
    /\ merged = last.pre.merged
    /\ last.created > 0

\* a symlink of a destination points to a file the source directories hold
PointsToSource(e) ==
    /\ e.t[1] \in DOMAIN trees
    /\ e.t[2] \in trees[e.t[1]]

\* C22: merge rebuild from scratch.  Every symlink present in Merged/Shaders
\* and Merged/Textures when merge_shaders starts is removed and every regular
\* file there is left as it was: after the merge every symlink of either
\* destination points to a file of the current source directories, and every
\* name that held a regular file still holds it.
C22_RebuildFromScratch ==
    last.op = "merge" =>
        \A d \in DOMAIN merged : \A x \in DOMAIN merged[d] :
            /\ merged[d][x].k = "link" => PointsToSource(merged[d][x])
            /\ last.pre.merged[d][x].k = "file" <=> merged[d][x].k = "file"
            /\ last.pre.merged[d][x].k = "file" => merged[d][x] = last.pre.merged[d][x]

\* a merge removed a stale symlink no source offers and kept a regular file
C22_Witness ==
    /\ last.op = "merge"
    /\ last.pre.merged["Shaders"]["X.fx"] = MLink("repo0/Shaders", "old")
    /\ Holders("X.fx") = {}
    /\ merged["Shaders"]["X.fx"] = MAbsent
    /\ last.pre.merged["Textures"]["T.PNG"] = MFile
    /\ merged["Textures"]["T.PNG"] = MFile
    /\ Holders("T.PNG") # {}

\* the names the source directories offer for a destination
Offered(d) ==
    { x \in MergeNames : \E i \in Holders(x) : DestOf(SourceDirs[i], x) = d }

\* the names a destination holds a symlink for
Linked(d) == { x \in DOMAIN merged[d] : merged[d][x].k = "link" }

\* C23 as stated: after merge_shaders the shader destination contains one
\* symlink for each distinct file name found in a Shaders directory (or as a
\* loose shader file in the override root) and the texture destination one
\* for each found in a Textures directory (or as a loose texture file), also
\* when a name occurs in both a Shaders and a Textures directory.
C23_OneLinkPerOfferedName ==
    last.op = "merge" => \A d \in DOMAIN merged : Linked(d) = Offered(d)

\* C23 as amended: after merge_shaders each destination contains one symlink
\* for each distinct file name whose first occurrence in the traversal is
\* offered for that destination, unless an entry that is not a symlink
\* occupied the name there before the merge, and contains no other symlink:
\* a name that occurs in both a Shaders and a Textures directory is linked in
\* the destination of its first occurrence only.
C23_OneLinkPerFirstOccurrence ==
    last.op = "merge" =>
        \A d \in DOMAIN merged :
            Linked(d) = { x \in Offered(d) :
                            /\ DestOf(FirstHolder(x), x) = d
                            /\ last.pre.merged[d][x].k # "file" }

\* X.fx occurs in a Shaders and in a Textures directory and is linked among
\* the shaders only; T.PNG is a loose file of the override root and is linked
\* among the textures
C23_Witness ==
    /\ last.op = "merge"
    /\ "X.fx" \in trees["repo1/Shaders"] /\ "X.fx" \in trees["repo2/Textures"]
    /\ "T.PNG" \in trees["External_shaders"]
    /\ Linked("Shaders") = { "X.fx" }
    /\ Linked("Textures") = { "T.PNG" }
    /\ merged["Textures"]["T.PNG"] = MLink("External_shaders", "T.PNG")

\* C24: merge count.  The count merge_shaders reports equals the number of
\* symlinks it created in the two destinations during that run, also when a
\* regular file occupies a destination name and the source file of that name
\* is not linked.
C24_CountIsLinksCreated ==
    last.op = "merge" =>
        /\ last.count = last.created
        /\ last.count = Cardinality(Linked("Shaders")) + Cardinality(Linked("Textures"))

\* the symlink-resolved path of a source safe_symlink is given: the version
\* directory "latest" is a symlink to the directory of the current version
ResolvedSource(src) ==
    IF src = "M/reshade/latest/ReShade64.dll" THEN "M/reshade/6.1/ReShade64.dll" ELSE src

\* C25: a filesystem conflict is never a hard failure.  For every kind of
\* entry at the target that is not a symlink (regular file or directory) and
\* for both values of the backup flag, safe_symlink completes without error
\* and leaves the target a symlink to the source; with backup true the entry
\* is then found under the target's backup name, with backup false it is gone.
C25_ConflictNeverFails ==
    (last.op = "safe_symlink" /\ last.pre.fs[last.name].k \in { "file", "dir" }) =>
        /\ last.err = ""
        /\ fs[last.name] = Link(ResolvedSource(last.src))
        /\ last.backup => fs[BackupPath(last.name)] = last.pre.fs[last.name]
        /\ ~last.backup => fs[BackupPath(last.name)] = last.pre.fs[BackupPath(last.name)]

\* C26: link over an existing symlink.  When the target is a symlink, valid or
\* dangling, safe_symlink raises nothing for either value of the backup flag,
\* the target becomes a symlink to the symlink-resolved path of the source,
\* and nothing else changes: no backup entry appears, no other entry of the
\* directory and nothing the old symlink pointed to is touched.
C26_LinkOverSymlink ==
    (last.op = "safe_symlink" /\ last.pre.fs[last.name].k = "link") =>
        /\ last.err = ""
        /\ fs = [last.pre.fs EXCEPT ![last.name] = Link(ResolvedSource(last.src))]
        /\ SharedUnchanged

\* a valid symlink to the shader directory was replaced, with backup asked
\* for, by a symlink to the resolved overlay library, and no backup appeared
C26_Witness ==
    /\ last.op = "safe_symlink" /\ last.backup
    /\ last.pre.fs[last.name] = Link(ShadersPath)
    /\ Exists(last.pre.env, last.pre.fs, last.name)
    /\ last.src = "M/reshade/latest/ReShade64.dll"
    /\ fs[last.name] = Link("M/reshade/6.1/ReShade64.dll")
    /\ fs[BackupPath(last.name)] = Absent

\* C27: a successful install persists the record.  Whenever install_to_game
\* returns, the store holds, in memory and on disk, under the resolved path of
\* the target a record whose architecture, detected API, override module,
\* install directory and selected executable are those of the record that was
\* installed; an install that raises, or that is interrupted before its save,
\* leaves the store in memory and on disk as it was.
C27_SuccessfulInstallPersists ==
    /\ (last.op = "install" /\ last.ret) =>
          /\ "/games/A" \in DOMAIN cache
          /\ cache["/games/A"].architecture = game.architecture
          /\ cache["/games/A"].detected_api = game.detected_api
          /\ cache["/games/A"].dll_override = last.dll
          /\ cache["/games/A"].install_path = game.install_path
          /\ cache["/games/A"].selected_exe = game.selected_exe
          /\ disk = [exists |-> TRUE, doc |-> cache]
    /\ ((last.op = "install" /\ ~last.ret) \/ last.op = "interrupted") =>
          cache = last.pre.cache /\ disk = last.pre.disk

\* an install of a target found under /mnt/A returned and its record is held
\* under /games/A, in a store that held nothing before
C27_Witness ==
    /\ last.op = "install" /\ last.ret
    /\ game.path = "/mnt/A"
    /\ last.pre.cache = NoRecords /\ ~last.pre.disk.exists
    /\ DOMAIN cache = { "/games/A" }
    /\ cache["/games/A"].dll_override = last.dll
    /\ disk.doc = cache

\* the name install_to_game links in its i-th step, for the install recorded
\* in last ("" when the step links nothing)
StepName(i) ==
    CASE i = 1 -> DllName(last.dll)
      [] i = 2 -> "d3dcompiler_47.dll"
      [] i = 3 -> "ReShade_shaders"
      [] i = 4 -> IF SharedExists(last.pre.env, IniSrc(last.pre.env.global_ini))
                  THEN last.pre.env.global_ini ELSE ""

\* C28: install backup policy.  When install_to_game links the shim over a
\* regular file <dll_override>.dll, the content of that file is afterwards
\* under <dll_override>.dll.backup (inside it when that name is a directory);
\* when it links d3dcompiler_47.dll, ReShade_shaders or the configuration
\* file over a regular file, the file is replaced; and no backup entry other
\* than the shim's is ever created or changed by an install.
C28_BackupPolicy ==
    last.op \in { "install", "interrupted" } =>
        /\ (last.done >= 1 /\ last.pre.fs[StepName(1)].k = "file") =>
              /\ fs[StepName(1)].k = "link"
              /\ fs[BackupPath(StepName(1))] =
                    IF last.pre.fs[BackupPath(StepName(1))].k = "dir"
                    THEN Dir(last.pre.fs[StepName(1)].c)
                    ELSE last.pre.fs[StepName(1)]
        /\ \A i \in 2 .. 4 :
              (last.done >= i /\ StepName(i) # "" /\ last.pre.fs[StepName(i)].k = "file") =>
                  fs[StepName(i)].k = "link"
        /\ \A t \in LinkNames \ { StepName(1) } :
              fs[BackupPath(t)] = last.pre.fs[BackupPath(t)]

\* an install into a directory that held regular files under all four names
\* backed up the shim's and replaced the three others without a backup
C28_Witness ==
    /\ last.op = "install" /\ last.ret /\ last.dll = "dxgi"
    /\ last.pre.fs = OccupiedDir
    /\ fs["dxgi.dll.backup"] = File("orig")
    /\ \A t \in { "dxgi.dll", "d3dcompiler_47.dll", "ReShade_shaders", "ReShade.ini" } :
           fs[t].k = "link"
    /\ \A t \in { "d3dcompiler_47.dll", "ReShade_shaders", "ReShade.ini" } :
           fs[BackupPath(t)] = Absent

\* C29: architecture classification.  When the structured parse completes,
\* analyze_executable reports 32-bit exactly when the machine type of the
\* header is IMAGE_FILE_MACHINE_I386 and 64-bit for every other machine type,
\* whatever graphics libraries are imported.
C29_ArchitectureFromMachineType ==
    Parsed =>
        /\ ret.arch \in { 32, 64 }
        /\ ret.arch = 32 <=> exe.machine = IMAGE_FILE_MACHINE_I386
        /\ game.architecture = ret.arch

\* an ARM64 executable importing D3D9.DLL was classified 64-bit with d3d9
C29_Witness ==
    /\ Parsed
    /\ exe.machine = 43620
    /\ "D3D9.DLL" \in exe.imports
    /\ ret.arch = 64 /\ ret.dll = "d3d9"

\* C30: a second backup overwrites the first.  When safe_symlink is called
\* with backup true on a target that is a regular file while the target's
\* backup name holds a regular file, nothing is raised, the backup name then
\* holds the content the target had, the target is the new symlink, and no
\* other entry of the directory appears or changes.
C30_SecondBackupOverwrites ==
    (/\ last.op = "safe_symlink" /\ last.backup
     /\ last.pre.fs[last.name].k = "file"
     /\ last.pre.fs[BackupPath(last.name)].k = "file") =>
        /\ last.err = ""
        /\ fs = [last.pre.fs EXCEPT ![BackupPath(last.name)] = last.pre.fs[last.name],
                                    ![last.name] = Link(ResolvedSource(last.src))]

\* the earlier backup "old" was replaced by the content "orig" of the target
C30_Witness ==
    /\ last.op = "safe_symlink" /\ last.backup
    /\ last.pre.fs[last.name] = File("orig")
    /\ last.pre.fs[BackupPath(last.name)] = File("old")
    /\ fs[BackupPath(last.name)] = File("orig")
    /\ fs[last.name].k = "link"
    /\ last.err = ""

\* the entry the store held for the target before select_exe_for_analysis
SavedBefore == last.pre.cache["/games/A"]

\* the store held a well-formed record of the target whose selected
\* executable existed
SavedUsable ==
    /\ "/games/A" \in DOMAIN last.pre.cache
    /\ WellFormed(SavedBefore)
    /\ DictGet(SavedBefore, "selected_exe", None) # None
    /\ ExeExists(last.pre.env, last.pre.fs, SavedBefore.selected_exe)

\* C31: the saved configuration wins over re-classification.  When the store
\* holds a record under the target's resolved path whose selected executable
\* still exists, select_exe_for_analysis takes the architecture, the detected
\* API, the override module, the install directory and the executable from
\* that record and does not run analyze_executable; when there is no such
\* record, or its executable no longer exists, the executable that is chosen
\* is classified afresh, the install directory becomes its parent, and with
\* no executable chosen the target is returned as it was.
C31_SavedConfigurationWins ==
    last.op \in { "select", "classify" } =>
        IF SavedUsable
        THEN /\ last.op = "select" /\ ret = NoResult
             /\ game.architecture = DictGet(SavedBefore, "architecture", 64)
             /\ game.detected_api = DictGet(SavedBefore, "detected_api", "dx11")
             /\ game.dll_override = DictGet(SavedBefore, "dll_override", "dxgi")
             /\ game.install_path = IF DictGet(SavedBefore, "install_path", None) # None
                                    THEN SavedBefore.install_path ELSE SavedBefore.path
             /\ game.selected_exe = SavedBefore.selected_exe
        ELSE /\ last.path # None =>
                   /\ last.op = "classify" /\ ret # NoResult
                   /\ game.architecture = ret.arch
                   /\ game.detected_api = ret.api
                   /\ game.dll_override = ret.dll
                   /\ game.install_path = ExeParent(last.path)
                   /\ game.selected_exe = last.path
             /\ last.path = None =>
                   last.op = "select" /\ ret = NoResult /\ game = last.rec.game
             /\ Len(last.rec.game.exe_files) = 1 => last.path = last.rec.game.exe_files[1]
             /\ Len(last.rec.game.exe_files) = 0 => last.path = None

\* a target found under /mnt/A, whose only executable would be classified
\* 64-bit dx12, took 32-bit, dx9, dinput8 and /games/A/bin from the record
\* saved under /games/A, and analyze_executable did not run
C31_Witness ==
    /\ last.op = "select" /\ SavedUsable
    /\ game.path = "/mnt/A"
    /\ Len(game.exe_files) = 1
    /\ "d3d12.dll" \in exe.imports
    /\ ret = NoResult
    /\ game.architecture = 32 /\ game.detected_api = "dx9"
    /\ game.dll_override = "dinput8" /\ game.install_path = "/games/A/bin"

\* the override module names of an install directory
ModuleNames == { DllName(DLL_OPTIONS[i]) : i \in DOMAIN DLL_OPTIONS }

\* the directory f holds the file content c for the module name t: under t,
\* under its backup name, or inside the directory of its backup name
HoldsContent(f, t, c) ==
    \/ f[t] = File(c)
    \/ f[BackupPath(t)] = File(c)
    \/ f[BackupPath(t)] = Dir(c)

\* the last call backed up a regular file t over the earlier backup
LaterBackup(t) ==
    /\ last.pre.fs[t].k = "file"
    /\ last.pre.fs[BackupPath(t)].k = "file"
    /\ fs[BackupPath(t)] = last.pre.fs[t]

\* C32: uninstall does not restore backups.  For an install directory that
\* held a regular file <module>.dll before an install that linked the shim,
\* after the uninstall that follows no entry exists at <module>.dll and the
\* content of the file is under <module>.dll.backup (inside it when that name
\* was a directory); and no install or uninstall, hence no sequence of them,
\* loses a file content held under a module name or its backup name, unless
\* that call backs up a regular file of the same name over it.
C32_UninstallKeepsBackups ==
    /\ (/\ prev.op \in { "install", "interrupted" } /\ prev.done >= 1
        /\ last.op \in { "uninstall", "uninstall_flow" }
        /\ prev.pre.fs[DllName(prev.dll)].k = "file") =>
          /\ fs[DllName(prev.dll)] = Absent
          /\ fs[BackupPath(DllName(prev.dll))] =
                IF prev.pre.fs[BackupPath(DllName(prev.dll))].k = "dir"
                THEN Dir(prev.pre.fs[DllName(prev.dll)].c)
                ELSE prev.pre.fs[DllName(prev.dll)]
    /\ last.op \in { "install", "interrupted", "uninstall", "uninstall_flow" } =>
          \A t \in ModuleNames : \A c \in { "orig", "old" } :
              HoldsContent(last.pre.fs, t, c) =>
                  HoldsContent(fs, t, c) \/ LaterBackup(t)

\* a directory that held a real dxgi.dll was installed into and uninstalled
\* from: dxgi.dll is gone and its content is under dxgi.dll.backup
C32_Witness ==
    /\ prev.op = "install" /\ prev.ret /\ prev.dll = "dxgi"
    /\ last.op = "uninstall"
    /\ prev.pre.fs["dxgi.dll"] = File("orig")
    /\ prev.pre.fs["dxgi.dll.backup"] = Absent
    /\ "dxgi.dll" \in Range(last.removed)
    /\ fs["dxgi.dll"] = Absent
    /\ fs["dxgi.dll.backup"] = File("orig")

\* C33: disjoint merge namespaces.  The file names merge_shaders links into
\* the shader destination and those it links into the texture destination in
\* one run are disjoint: a file name is linked at most once per run across
\* both destinations, so the run creates no more links than it saw names.
C33_DisjointNamespaces ==
    last.op = "merge" =>
        /\ Linked("Shaders") \cap Linked("Textures") = {}
        /\ last.created = Cardinality(Linked("Shaders") \cup Linked("Textures"))
        /\ last.created <= last.count

\* T.PNG is in a Shaders and in a Textures directory of one repository, both
\* destinations were free of it, and it was linked among the shaders only
C33_Witness ==
    /\ last.op = "merge"
    /\ "T.PNG" \in trees["repo1/Shaders"] /\ "T.PNG" \in trees["repo1/Textures"]
    /\ last.pre.merged["Shaders"]["T.PNG"] = MAbsent
    /\ last.pre.merged["Textures"]["T.PNG"] = MAbsent
    /\ merged["Shaders"]["T.PNG"] = MLink("repo1/Shaders", "T.PNG")
    /\ merged["Textures"]["T.PNG"] = MAbsent

=============================================================================
